---- MODULE Spec2Model ----
(***************************************************************************)
(* A model of auto-import-cli: the export index (ImportResolver), the      *)
(* per-run analysis and the fix application (AutoImportCli).               *)
(*                                                                         *)
(* Text is modelled at token level.  A file's content is the sequence of   *)
(* its lines (content.split('\n')), a line is the sequence of the tokens   *)
(* of its trimmed text, and the regular expressions of the source are      *)
(* matched against the token stream (\s+ spans line breaks, as it does in  *)
(* the source).  A quoted module specifier 'x' is the three tokens         *)
(* "'", "x", "'".                                                          *)
(***************************************************************************)
EXTENDS Integers, Sequences, FiniteSets, TLC

VARIABLES
    disk,        \* the project's files on disk: path -> content (sequence of lines)
    diskAtStart, \* disk as it was when the current run started
    pc,          \* position of AutoImportCli.run: idle, index, scan, analyze,
                 \* apply, done, aborted
    runNo,       \* which invocation of run this is (1 = first)
    dryRun,      \* options.dryRun of the current invocation
    exportCache, \* ImportResolver.exportCache, in Map insertion order
    walkPos,     \* number of entries the current loop has consumed
    files,       \* the scanner's result: sequence of [path, content]
    allMissingImports, \* run(): MissingImport records in push order
    filesWithIssues,   \* run(): counter
    fileMap,     \* applyFixes(): grouped fixable imports, in Map insertion order
    writes,      \* per file: number of fs.writeFile calls in the current run
    readFailed,  \* the reads that failed so far: <<run, phase, path>>
    history,     \* the pairs the previous completed run resolved
    call,        \* the last direct resolveImport call (resolver harness)
    edit,        \* the last direct edit of a text (edit harness)
    tsconfig,    \* the project's tsconfig.json as the alias loader finds it
    pathAliases, \* ImportResolver.pathAliases
    options,     \* ImportResolver.options: extensions, plugins
    cliOptions,  \* CliOptions.extensions and CliOptions.ignore of the run
    pathCall,    \* the last direct getRelativeImportPath call (path harness)
    parseCall,   \* the last direct call of a parsing function (parse harness)
    wizard       \* runSetupWizard: its position, stepIndex and WizardState

vars == <<disk, diskAtStart, pc, runNo, dryRun, exportCache, walkPos, files,
          allMissingImports, filesWithIssues, fileMap, writes, readFailed,
          history, call, edit,
          tsconfig, pathAliases, options, cliOptions, pathCall, parseCall, wizard>>

(***************************************************************************)
(* Generic helpers                                                         *)
(***************************************************************************)
None == <<>>
Some(x) == <<x>>

Range(s) == {s[i] : i \in 1..Len(s)}

RECURSIVE Flatten(_)
Flatten(ss) == IF ss = <<>> THEN <<>> ELSE Head(ss) \o Flatten(Tail(ss))

\* lines.splice(at, 0, ...items): at is a 0-based index
Splice(lines, at, items) ==
    SubSeq(lines, 1, at) \o items \o SubSeq(lines, at + 1, Len(lines))

(***************************************************************************)
(* Paths.  A path is [dir, name, ext]: the directory components below the  *)
(* root, the base name and the extension (path.extname).                   *)
(***************************************************************************)
File(dir, name, ext) == [dir |-> dir, name |-> name, ext |-> ext]

\* The file set in file-walk (glob) order.
Walk == << File(<<"p">>, "a", ".ts"),
           File(<<"p">>, "b", ".ts"),
           File(<<"p", "sub">>, "c", ".tsx") >>

Paths == Range(Walk)

RECURSIVE CommonPrefixLen(_, _)
CommonPrefixLen(d1, d2) ==
    IF d1 = <<>> \/ d2 = <<>> \/ Head(d1) # Head(d2) THEN 0
    ELSE 1 + CommonPrefixLen(Tail(d1), Tail(d2))

RECURSIVE JoinPath(_)
JoinPath(parts) ==
    IF parts = <<>> THEN ""
    ELSE IF Len(parts) = 1 THEN parts[1]
    ELSE parts[1] \o "/" \o JoinPath(Tail(parts))

\* the extensions removed by /\.(ts|tsx|js|jsx|py)$/
StrippedExts == {".ts", ".tsx", ".js", ".jsx", ".py"}

\* relativePath.startsWith('.') for a first path component
StartsWithDot(component) == component \in {"..", ".", ".config"}

relativeSpecifierMutNoPrefix(fromFile, toFile) ==
    LET k     == CommonPrefixLen(fromFile.dir, toFile.dir)
        ups   == [i \in 1..(Len(fromFile.dir) - k) |-> ".."]
        downs == SubSeq(toFile.dir, k + 1, Len(toFile.dir))
        base  == IF toFile.ext \in StrippedExts THEN toFile.name
                 ELSE toFile.name \o toFile.ext
    IN JoinPath(ups \o downs \o <<base>>)

\* ImportResolver.getRelativeImportPath, the part after the alias lookup:
\* path.relative(dirname(fromFile), toFile), extension removed, './' prefixed
relativeSpecifier(fromFile, toFile) ==
    LET fromDir == fromFile.dir
        k       == CommonPrefixLen(fromDir, toFile.dir)
        ups     == [i \in 1..(Len(fromDir) - k) |-> ".."]
        downs   == SubSeq(toFile.dir, k + 1, Len(toFile.dir))
        base    == IF toFile.ext \in StrippedExts THEN toFile.name
                   ELSE toFile.name \o toFile.ext
        parts   == ups \o downs \o <<base>>
    IN IF StartsWithDot(parts[1]) THEN JoinPath(parts)
       ELSE "./" \o JoinPath(parts)

(***************************************************************************)
(* Tokens and lines                                                        *)
(***************************************************************************)
\* tokens that \w+ does not match
NonWords == {"{", "}", "(", ")", ",", ";", "'", ".", "=", "*", "//", "/*",
             "/**", "*/", "<", "/>", "use client"}

IsWord(tok) == tok \notin NonWords

\* trimmedLine.startsWith('//') || startsWith('/*') || startsWith('*') || === ''
IsCommentOrBlank(line) ==
    \/ line = <<>>
    \/ line[1] \in {"//", "/*", "/**", "*", "*/"}

\* trimmedLine.startsWith('import ')
StartsWithImport(line) == Len(line) > 1 /\ line[1] = "import"

MatchAt(toks, i, pat) ==
    /\ i + Len(pat) - 1 <= Len(toks)
    /\ SubSeq(toks, i, i + Len(pat) - 1) = pat

\* first index >= i of tok in toks, 0 if none
RECURSIVE IndexFrom(_, _, _)
IndexFrom(toks, i, tok) ==
    IF i > Len(toks) THEN 0
    ELSE IF toks[i] = tok THEN i
    ELSE IndexFrom(toks, i + 1, tok)

\* s.split(sep) on a token sequence
RECURSIVE SplitBy(_, _)
SplitBy(toks, sep) ==
    LET j == IndexFrom(toks, 1, sep)
    IN IF j = 0 THEN <<toks>>
       ELSE <<SubSeq(toks, 1, j - 1)>> \o SplitBy(SubSeq(toks, j + 1, Len(toks)), sep)

RECURSIVE JoinSpace(_)
JoinSpace(toks) ==
    IF toks = <<>> THEN ""
    ELSE IF Len(toks) = 1 THEN toks[1]
    ELSE toks[1] \o " " \o JoinSpace(Tail(toks))

RECURSIVE LastIndexOf(_, _)
LastIndexOf(toks, tok) ==
    IF toks = <<>> THEN 0
    ELSE IF toks[Len(toks)] = tok THEN Len(toks)
    ELSE LastIndexOf(SubSeq(toks, 1, Len(toks) - 1), tok)

(***************************************************************************)
(* ImportResolver.parseExportsLegacy: the seven regular expressions, each  *)
(* run over the whole text in turn.                                        *)
(***************************************************************************)
ExportInfo(name, source, isDefault, isType) ==
    [name |-> name, source |-> source, isDefault |-> isDefault, isType |-> isType]

\* /prefix\s+(\w+)/g: the word after each occurrence of the token prefix
WordsAfter(toks, prefix) ==
    LET n == Len(prefix)
        RECURSIVE Go(_)
        Go(i) == IF i + n > Len(toks) THEN <<>>
                 ELSE IF toks[i] # prefix[1] THEN Go(i + 1)
                 ELSE IF MatchAt(toks, i, prefix) /\ IsWord(toks[i + n])
                      THEN <<toks[i + n]>> \o Go(i + n + 1)
                 ELSE Go(i + 1)
    IN Go(1)

\* /a\s+(x|y)\s+(\w+)/g for alternative prefixes: matches in text order
WordsAfterAny(toks, prefixes) ==
    LET RECURSIVE Go(_)
        Go(i) ==
            IF i > Len(toks) THEN <<>>
            ELSE IF \A p \in prefixes : toks[i] # p[1] THEN Go(i + 1)
            ELSE LET hit == {p \in prefixes :
                               /\ MatchAt(toks, i, p)
                               /\ i + Len(p) <= Len(toks)
                               /\ IsWord(toks[i + Len(p)])}
                 IN IF hit = {} THEN Go(i + 1)
                    ELSE LET p == CHOOSE q \in hit : TRUE
                         IN <<toks[i + Len(p)]>> \o Go(i + Len(p) + 1)
    IN Go(1)

\* name.split(/\s*as\s*/i), last part: the text after the last "as".
\* The identifiers of this model do not contain the letters "as".
LastAsPart(item) ==
    LET j == LastIndexOf(item, "as")
    IN JoinSpace(SubSeq(item, j + 1, Len(item)))

\* /export\s+\{([^}]+)\}/g, split(','), trim, filter non-empty, last as-part
NamedListExports(toks) ==
    LET RECURSIVE Go(_)
        Go(i) ==
            IF i + 1 > Len(toks) THEN <<>>
            ELSE IF toks[i] = "export" /\ toks[i + 1] = "{"
                 THEN LET j == IndexFrom(toks, i + 2, "}")
                      IN IF j = 0 THEN <<>>
                         ELSE LET items == SelectSeq(SplitBy(SubSeq(toks, i + 2, j - 1), ","),
                                                     LAMBDA it : it # <<>>)
                              IN [k \in 1..Len(items) |-> LastAsPart(items[k])] \o Go(j + 1)
            ELSE Go(i + 1)
    IN Go(1)

parseExportsLegacy(content, filePath) ==
    LET toks == Flatten(content)
        mk(names, isDefault, isType) ==
            [k \in 1..Len(names) |-> ExportInfo(names[k], filePath, isDefault, isType)]
    IN    mk(WordsAfterAny(toks, {<<"export", "function">>,
                                  <<"export", "async", "function">>}), FALSE, FALSE)
       \o mk(WordsAfterAny(toks, {<<"export", "const">>, <<"export", "let">>,
                                  <<"export", "var">>}), FALSE, FALSE)
       \o mk(WordsAfter(toks, <<"export", "class">>), FALSE, FALSE)
       \o mk(WordsAfter(toks, <<"export", "interface">>), FALSE, TRUE)
       \o mk(WordsAfter(toks, <<"export", "type">>), FALSE, TRUE)
       \o mk(WordsAfterAny(toks, {<<"export", "default", "class">>,
                                  <<"export", "default", "function">>}), TRUE, FALSE)
       \o mk(NamedListExports(toks), FALSE, FALSE)

(***************************************************************************)
(* AstParser (parser/astParser.ts): lexical extraction of the existing     *)
(* imports and of the used identifiers; missing = used, not imported.      *)
(***************************************************************************)
ImportStatement(source, imports, isDefault, isNamespace) ==
    [source |-> source, imports |-> imports,
     isDefault |-> isDefault, isNamespace |-> isNamespace]

\* from 'source' at position i of the token stream
FromClauseAt(toks, i) ==
    /\ MatchAt(toks, i, <<"from", "'">>)
    /\ i + 3 <= Len(toks)
    /\ toks[i + 3] = "'"

\* the import declarations of a text, in text order: import { a, b as c } from
\* 's', import X from 's', import * as X from 's'
parseImportsToks(toks) ==
    LET RECURSIVE Go(_)
        Go(i) ==
            IF i + 1 > Len(toks) THEN <<>>
            ELSE IF toks[i] # "import" THEN Go(i + 1)
            ELSE LET j == IndexFrom(toks, i + 2, "}")
                 IN IF toks[i + 1] = "{" /\ j > i + 2 /\ FromClauseAt(toks, j + 1)
                    THEN LET items == SelectSeq(SplitBy(SubSeq(toks, i + 2, j - 1), ","),
                                                LAMBDA it : it # <<>>)
                             names == [k \in 1..Len(items) |-> LastAsPart(items[k])]
                         IN <<ImportStatement(toks[j + 3], names, FALSE, FALSE)>>
                            \o Go(j + 5)
                    ELSE IF IsWord(toks[i + 1]) /\ FromClauseAt(toks, i + 2)
                    THEN <<ImportStatement(toks[i + 4], <<toks[i + 1]>>, TRUE, FALSE)>>
                         \o Go(i + 6)
                    ELSE IF /\ MatchAt(toks, i + 1, <<"*", "as">>)
                            /\ i + 3 <= Len(toks)
                            /\ IsWord(toks[i + 3])
                            /\ FromClauseAt(toks, i + 4)
                    THEN <<ImportStatement(toks[i + 6], <<toks[i + 3]>>, FALSE, TRUE)>>
                         \o Go(i + 8)
                    ELSE Go(i + 1)
    IN Go(1)

parseImports(content) == parseImportsToks(Flatten(content))

\* reserved words and ambient globals that are never missing imports
BuiltInsAndKeywords ==
    {"function", "if", "for", "while", "switch", "return", "catch", "import",
     "export", "from", "as", "default", "const", "let", "var", "class",
     "async", "interface", "type", "new",
     "Array", "Object", "Promise", "Map", "Set", "String", "Number", "Date"}

isBuiltInOrKeyword(name) == name \in BuiltInsAndKeywords

\* identifiers written with a capital first letter
Capitalized == {"A", "B", "H", "Y", "Z", "Card", "Button",
                "Array", "Object", "Promise", "Map", "Set", "String", "Number", "Date"}

\* variant: the denylist is not consulted
findUsedIdentifiersMutKeepBuiltIns(content) ==
    LET toks == Flatten(content)
        used(i) ==
            /\ IsWord(toks[i])
            /\ \/ i > 1 /\ toks[i - 1] = "<" /\ toks[i] \in Capitalized
               \/ /\ i < Len(toks) /\ toks[i + 1] = "("
                  /\ ~(i > 1 /\ toks[i - 1] = ".")
        RECURSIVE Go(_)
        Go(i) == IF i > Len(toks) THEN <<>>
                 ELSE (IF used(i) THEN <<toks[i]>> ELSE <<>>) \o Go(i + 1)
    IN Go(1)

\* variant: a call after a dot counts as a call
findUsedIdentifiersMutKeepMethods(content) ==
    LET toks == Flatten(content)
        used(i) ==
            /\ IsWord(toks[i])
            /\ ~isBuiltInOrKeyword(toks[i])
            /\ \/ i > 1 /\ toks[i - 1] = "<" /\ toks[i] \in Capitalized
               \/ i < Len(toks) /\ toks[i + 1] = "("
        RECURSIVE Go(_)
        Go(i) == IF i > Len(toks) THEN <<>>
                 ELSE (IF used(i) THEN <<toks[i]>> ELSE <<>>) \o Go(i + 1)
    IN Go(1)

\* tag-like use of a capitalized identifier, or an identifier immediately
\* followed by "(" that is not a property access
findUsedIdentifiers(content) ==
    LET toks == Flatten(content)
        used(i) ==
            /\ IsWord(toks[i])
            /\ ~isBuiltInOrKeyword(toks[i])
            /\ \/ i > 1 /\ toks[i - 1] = "<" /\ toks[i] \in Capitalized
               \/ /\ i < Len(toks) /\ toks[i + 1] = "("
                  /\ ~(i > 1 /\ toks[i - 1] = ".")
        RECURSIVE Go(_)
        Go(i) == IF i > Len(toks) THEN <<>>
                 ELSE (IF used(i) THEN <<toks[i]>> ELSE <<>>) \o Go(i + 1)
    IN Go(1)

RECURSIVE Dedupe(_)
Dedupe(s) ==
    IF s = <<>> THEN <<>>
    ELSE LET init == Dedupe(SubSeq(s, 1, Len(s) - 1))
         IN IF s[Len(s)] \in Range(init) THEN init ELSE Append(init, s[Len(s)])

importedNames(content) ==
    UNION {Range(imp.imports) : imp \in Range(parseImports(content))}

\* AstParser.parse(content).missingImports
missingImportsOf(content) ==
    SelectSeq(Dedupe(findUsedIdentifiers(content)),
              LAMBDA name : name \notin importedNames(content))

(***************************************************************************)
(* ImportResolver: the export index and resolveImport                      *)
(***************************************************************************)
\* the default ResolverOptions.extensions, which the glob pattern is built from
ResolverExtensions == {".ts", ".tsx", ".js", ".jsx"}

\* getDefaultPlugins(): JsTsPlugin, PythonPlugin, RustPlugin
DefaultPlugins == {"jsts", "python", "rust"}

\* the constructor of ImportResolver: the defaults, then the options given
DefaultResolverOptions ==
    [extensions |-> ResolverExtensions, plugins |-> DefaultPlugins, useAliases |-> TRUE]

\* the files the glob of buildExportCache yields, in walk order
globFiles == SelectSeq(Walk, LAMBDA f : f.ext \in options.extensions)

\* JsTsPlugin.parseExports: the export shapes of the plugin contract, which
\* are the shapes parseExportsLegacy recognises
pluginParseExports(content, filePath) == parseExportsLegacy(content, filePath)

\* the extensions of each plugin
PluginExtensions ==
    [jsts   |-> {".ts", ".tsx", ".js", ".jsx", ".vue", ".svelte", ".astro"},
     python |-> {".py"},
     rust   |-> {".rs"}]

\* getPluginForExtension(ext, this.options.plugins) # null
hasPlugin(ext) == \E plugin \in options.plugins : ext \in PluginExtensions[plugin]

\* Map.set: an existing key keeps its place, a new key goes last
cacheSet(cache, filePath, exports) ==
    IF \E i \in 1..Len(cache) : cache[i].file = filePath
    THEN [i \in 1..Len(cache) |->
            IF cache[i].file = filePath
            THEN [file |-> filePath, exports |-> exports] ELSE cache[i]]
    ELSE Append(cache, [file |-> filePath, exports |-> exports])

indexUnreadableMutAbort(cache, filePath) == <<>>

\* one iteration of the loop of buildExportCache whose readFile fails: the
\* catch block swallows the error
indexUnreadable(cache, filePath) == cache

indexReadableMutStoreEmpty(cache, filePath, content) ==
    LET exports == IF hasPlugin(filePath.ext)
                   THEN pluginParseExports(content, filePath)
                   ELSE parseExportsLegacy(content, filePath)
    IN cacheSet(cache, filePath, exports)

\* one iteration of the loop of buildExportCache whose readFile succeeds
indexReadable(cache, filePath, content) ==
    LET exports == IF hasPlugin(filePath.ext)
                   THEN pluginParseExports(content, filePath)
                   ELSE parseExportsLegacy(content, filePath)
    IN IF Len(exports) > 0 THEN cacheSet(cache, filePath, exports) ELSE cache

\* exports.find(exp => exp.name === identifier): first matching index or 0
findExport(exports, identifier) ==
    LET hits == {k \in 1..Len(exports) : exports[k].name = identifier}
    IN IF hits = {} THEN 0 ELSE CHOOSE k \in hits : \A m \in hits : k <= m

resolveEntryMutLast(cache, identifier, currentFile) ==
    LET hits == {i \in 1..Len(cache) :
                   /\ cache[i].file # currentFile
                   /\ findExport(cache[i].exports, identifier) # 0}
    IN IF hits = {} THEN 0 ELSE CHOOSE i \in hits : \A m \in hits : m <= i

resolveEntryMutNoSkip(cache, identifier, currentFile) ==
    LET RECURSIVE Go(_)
        Go(i) == IF i > Len(cache) THEN 0
                 ELSE IF findExport(cache[i].exports, identifier) # 0 THEN i
                 ELSE Go(i + 1)
    IN Go(1)

\* the loop of resolveImport: the position in the cache of the entry it
\* returns from, 0 when it falls through to `return null`
resolveEntry(cache, identifier, currentFile) ==
    LET RECURSIVE Go(_)
        Go(i) == IF i > Len(cache) THEN 0
                 ELSE IF cache[i].file = currentFile THEN Go(i + 1)
                 ELSE IF findExport(cache[i].exports, identifier) # 0 THEN i
                 ELSE Go(i + 1)
    IN Go(1)

(***************************************************************************)
(* Path aliases.  An absolute path is a sequence of atoms: "/", directory  *)
(* names, the base name and the extension.  String prefix tests and slices *)
(* are prefix tests and slices of atom sequences.                          *)
(***************************************************************************)
Sep == "/"

\* options.projectRoot, as directory components
ProjectRoot == <<"p">>

\* the atoms of one path component: a name that begins with the name of
\* another directory is that name followed by the rest
NameAtoms(component) == IF component = "uikit" THEN <<"ui", "kit">> ELSE <<component>>

RECURSIVE DirAtoms(_)
DirAtoms(dir) ==
    IF dir = <<>> THEN <<>> ELSE NameAtoms(Head(dir)) \o <<Sep>> \o DirAtoms(Tail(dir))

\* path.resolve(toFile) of a file
absolutePath(f) == <<Sep>> \o DirAtoms(f.dir) \o <<f.name, f.ext>>

RECURSIVE JoinStr(_)
JoinStr(atoms) == IF atoms = <<>> THEN "" ELSE Head(atoms) \o JoinStr(Tail(atoms))

\* s.replace('*', ''): the first "*" removed
RECURSIVE RemoveStar(_)
RemoveStar(atoms) ==
    IF atoms = <<>> THEN <<>>
    ELSE IF Head(atoms) = "*" THEN Tail(atoms)
    ELSE <<Head(atoms)>> \o RemoveStar(Tail(atoms))

\* path.resolve(base, relative) on directory components: "." stays, ".."
\* goes up
RECURSIVE ResolveSegs(_, _)
ResolveSegs(base, segs) ==
    IF segs = <<>> THEN base
    ELSE IF Head(segs) = "." THEN ResolveSegs(base, Tail(segs))
    ELSE IF Head(segs) = ".."
         THEN ResolveSegs(SubSeq(base, 1, Len(base) - 1), Tail(segs))
    ELSE ResolveSegs(Append(base, Head(segs)), Tail(segs))

\* a directory as the atoms of its absolute path, without a trailing separator
DirPathAtoms(dir) ==
    IF dir = <<>> THEN <<>>
    ELSE <<Sep>> \o SubSeq(DirAtoms(dir), 1, Len(DirAtoms(dir)) - 1)

IsPrefixOf(pre, seq) ==
    Len(pre) <= Len(seq) /\ SubSeq(seq, 1, Len(pre)) = pre

\* tsconfig.json.  kind: "absent" (readFile throws), "unparseable"
\* (JSON.parse throws) or "ok"; baseUrl: the segments of
\* compilerOptions.baseUrl, <<".">> when it is not set; paths: the entries of
\* compilerOptions.paths in key order.  An entry has its pattern as atoms
\* ("*" is an atom), isArray for Array.isArray(targets), and its targets,
\* each with isString and its path segments ("*" is a segment).
AliasEntry(pattern, isArray, targets) ==
    [pattern |-> pattern, isArray |-> isArray, targets |-> targets]

TargetPath(segs) == [isString |-> TRUE, segs |-> segs]

\* a target that is not a string, such as a number
TargetOther == [isString |-> FALSE, segs |-> <<>>]

TsConfig(baseUrl, paths) == [kind |-> "ok", baseUrl |-> baseUrl, paths |-> paths]

TsConfigAbsent == [kind |-> "absent", baseUrl |-> <<".">>, paths |-> <<>>]

TsConfigUnparseable == [kind |-> "unparseable", baseUrl |-> <<".">>, paths |-> <<>>]

PathAlias(pattern, prefix, targetPrefix) ==
    [pattern |-> pattern, prefix |-> prefix, targetPrefix |-> targetPrefix]

\* the PathAlias pushed for one entry of paths whose first target is a string
aliasOfEntry(resolvedBaseUrl, entry) ==
    LET target      == entry.targets[1]
        hasWildcard == "*" \in Range(entry.pattern)
    IN IF hasWildcard
       THEN PathAlias(JoinStr(entry.pattern), JoinStr(RemoveStar(entry.pattern)),
                      DirPathAtoms(ResolveSegs(resolvedBaseUrl, RemoveStar(target.segs)))
                         \o <<Sep>>)
       ELSE PathAlias(JoinStr(entry.pattern), JoinStr(entry.pattern),
                      DirPathAtoms(ResolveSegs(resolvedBaseUrl, target.segs)))

\* this.pathAliases.sort((a, b) => b.prefix.length - a.prefix.length): by the
\* length of the alias prefix, longest first; the sort is stable
sortAliases(aliases) ==
    LET RECURSIVE Insert(_, _)
        Insert(sorted, a) ==
            IF sorted = <<>> THEN <<a>>
            ELSE IF Len(Head(sorted).prefix) >= Len(a.prefix)
                 THEN <<Head(sorted)>> \o Insert(Tail(sorted), a)
            ELSE <<a>> \o sorted
        RECURSIVE Go(_, _)
        Go(i, acc) == IF i > Len(aliases) THEN acc ELSE Go(i + 1, Insert(acc, aliases[i]))
    IN Go(1, <<>>)

\* loadPathAliases: the value of this.pathAliases it leaves.  An entry without
\* a list of targets is passed over; a first target that is not a string
\* throws out of the loop, and the catch block empties the list.
loadPathAliases(config) ==
    IF config.kind # "ok" THEN <<>>
    ELSE LET resolvedBaseUrl == ResolveSegs(ProjectRoot, config.baseUrl)
             RECURSIVE Go(_, _)
             Go(i, acc) ==
                 IF i > Len(config.paths) THEN sortAliases(acc)
                 ELSE LET entry == config.paths[i]
                      IN IF ~entry.isArray \/ Len(entry.targets) = 0
                         THEN Go(i + 1, acc)
                         ELSE IF ~entry.targets[1].isString THEN <<>>
                         ELSE Go(i + 1, Append(acc, aliasOfEntry(resolvedBaseUrl, entry)))
         IN Go(1, <<>>)

\* remainder.replace(/\.(ts|tsx|js|jsx|py)$/, '') on atoms
withoutExt(atoms) ==
    IF atoms # <<>> /\ atoms[Len(atoms)] \in StrippedExts
    THEN SubSeq(atoms, 1, Len(atoms) - 1)
    ELSE atoms

\* getAliasImportPath(toFile): the specifier of the first alias in
\* this.pathAliases whose targetPrefix the path starts with; None is null
getAliasImportPath(aliases, toFile) ==
    LET normalizedToFile == absolutePath(toFile)
        RECURSIVE Go(_)
        Go(i) ==
            IF i > Len(aliases) THEN None
            ELSE IF IsPrefixOf(aliases[i].targetPrefix, normalizedToFile)
                 THEN LET remainder == SubSeq(normalizedToFile,
                                              Len(aliases[i].targetPrefix) + 1,
                                              Len(normalizedToFile))
                      IN Some(aliases[i].prefix \o JoinStr(withoutExt(remainder)))
            ELSE Go(i + 1)
    IN Go(1)

\* getRelativeImportPath(fromFile, toFile): the alias specifier when an alias
\* applies, the relative specifier otherwise
getRelativeImportPath(fromFile, toFile) ==
    LET aliasPath == IF Len(pathAliases) > 0
                     THEN getAliasImportPath(pathAliases, toFile)
                     ELSE None
    IN IF aliasPath # None /\ aliasPath[1] # ""
       THEN aliasPath[1]
       ELSE relativeSpecifier(fromFile, toFile)

resolveImportMutRawSource(cache, identifier, currentFile) ==
    LET i == resolveEntry(cache, identifier, currentFile)
    IN IF i = 0 THEN None
       ELSE LET matchingExport ==
                    cache[i].exports[findExport(cache[i].exports, identifier)]
            IN Some([matchingExport EXCEPT
                       !.source = JoinStr(absolutePath(cache[i].file))])

\* resolveImport(identifier, currentFile): None is null
resolveImport(cache, identifier, currentFile) ==
    LET i == resolveEntry(cache, identifier, currentFile)
    IN IF i = 0 THEN None
       ELSE LET matchingExport ==
                    cache[i].exports[findExport(cache[i].exports, identifier)]
            IN Some([matchingExport EXCEPT
                       !.source = getRelativeImportPath(currentFile, cache[i].file)])

resolveImportCacheMutInPlace(cache, identifier, currentFile) ==
    LET i == resolveEntry(cache, identifier, currentFile)
    IN IF i = 0 THEN cache
       ELSE [cache EXCEPT
               ![i].exports[findExport(cache[i].exports, identifier)].source = currentFile]

\* resolveImport: this.exportCache after the call.  The result is built as
\* { ...matchingExport, source: relativePath }, a copy: no entry is assigned to
resolveImportCache(cache, identifier, currentFile) == cache

(***************************************************************************)
(* AutoImportCli: MissingImport records, the analysis of run() and the     *)
(* edit of applyFixes()                                                    *)
(***************************************************************************)
makeMissingImportMutAlways(identifier, filePath, resolution) ==
    [identifier |-> identifier, file |-> filePath,
     suggestion |-> Some([source |-> "./" \o identifier, isDefault |-> FALSE])]

\* run(): the MissingImport built for one identifier from its resolution
makeMissingImport(identifier, filePath, resolution) ==
    [identifier |-> identifier, file |-> filePath,
     suggestion |-> IF resolution # None
                    THEN Some([source    |-> resolution[1].source,
                               isDefault |-> resolution[1].isDefault])
                    ELSE None]

\* run(): the entries pushed for one scanned file
analyzeFile(cache, file) ==
    LET missing == missingImportsOf(file.content)
    IN [k \in 1..Len(missing) |->
          makeMissingImport(missing[k], file.path,
                            resolveImport(cache, missing[k], file.path))]

\* run(): the loop over the scanned files
RECURSIVE analyzeAll(_, _)
analyzeAll(cache, scanned) ==
    IF scanned = <<>> THEN <<>>
    ELSE analyzeFile(cache, Head(scanned)) \o analyzeAll(cache, Tail(scanned))

\* run(): this.resolver's exportCache after the resolveImport calls of the loop
RECURSIVE analyzeAllCache(_, _)
analyzeAllCache(cache, scanned) ==
    IF scanned = <<>> THEN cache
    ELSE LET file == Head(scanned)
             RECURSIVE Go(_, _)
             Go(c, identifiers) ==
                 IF identifiers = <<>> THEN c
                 ELSE Go(resolveImportCache(c, Head(identifiers), file.path),
                         Tail(identifiers))
         IN analyzeAllCache(Go(cache, missingImportsOf(file.content)), Tail(scanned))

\* run(): filesWithIssues after the loop
\* variant: every scanned file is counted
countFilesWithIssuesMutAllFiles(scanned) == Len(scanned)

countFilesWithIssues(scanned) ==
    Cardinality({i \in 1..Len(scanned) :
                   Len(missingImportsOf(scanned[i].content)) > 0})

\* allMissingImports.filter(m => m.suggestion)
fixableOf(all) == SelectSeq(all, LAMBDA m : m.suggestion # None)

groupByFileMutPerImport(items) ==
    [i \in 1..Len(items) |-> [file |-> items[i].file, imports |-> <<items[i]>>]]

\* applyFixes(): group by file, in Map insertion order
RECURSIVE groupByFile(_)
groupByFile(items) ==
    IF items = <<>> THEN <<>>
    ELSE LET init == groupByFile(SubSeq(items, 1, Len(items) - 1))
             item == items[Len(items)]
         IN IF \E i \in 1..Len(init) : init[i].file = item.file
            THEN [i \in 1..Len(init) |->
                    IF init[i].file = item.file
                    THEN [init[i] EXCEPT !.imports = Append(@, item)]
                    ELSE init[i]]
            ELSE Append(init, [file |-> item.file, imports |-> <<item>>])

importStatementMutNamed(item) ==
    <<"import", "{", item.identifier, "}", "from",
      "'", item.suggestion[1].source, "'", ";">>

\* the import statement applyFixes renders for one item
importStatement(item) ==
    IF item.suggestion[1].isDefault
    THEN <<"import", item.identifier, "from", "'", item.suggestion[1].source, "'", ";">>
    ELSE <<"import", "{", item.identifier, "}", "from",
           "'", item.suggestion[1].source, "'", ";">>

\* applyFixes(): newImports of one file
newImportsOf(imports) ==
    LET withSuggestion == SelectSeq(imports, LAMBDA item : item.suggestion # None)
    IN [k \in 1..Len(withSuggestion) |-> importStatement(withSuggestion[k])]

\* applyFixes(): the scan for lastImportLine and firstCodeLine, and
\* insertIndex = lastImportLine >= 0 ? lastImportLine + 1 : firstCodeLine
insertIndexOf(lines) ==
    LET RECURSIVE Go(_, _, _)
        Go(i, lastImportLine, firstCodeLine) ==
            IF i >= Len(lines)
            THEN [lastImportLine |-> lastImportLine, firstCodeLine |-> firstCodeLine]
            ELSE IF IsCommentOrBlank(lines[i + 1])
                 THEN Go(i + 1, lastImportLine, i + 1)
            ELSE IF StartsWithImport(lines[i + 1])
                 THEN Go(i + 1, i, firstCodeLine)
            ELSE IF lastImportLine = -1
                 THEN [lastImportLine |-> lastImportLine,
                       firstCodeLine |-> firstCodeLine]
            ELSE Go(i + 1, lastImportLine, firstCodeLine)
        r == Go(0, -1, 0)
    IN IF r.lastImportLine >= 0 THEN r.lastImportLine + 1 ELSE r.firstCodeLine

\* applyFixes(): the new content of a regular JS/TS file
insertPlain(content, newImports) ==
    Splice(content, insertIndexOf(content), newImports)

(***************************************************************************)
(* FrameworkParser (parser/frameworkParser.ts): the script region of a     *)
(* Vue, Svelte or Astro file and the insertion of imports into it.         *)
(***************************************************************************)
FrameworkExts == {".vue", ".svelte", ".astro"}

\* the line that opens the script region
IsRegionOpen(line, ext) ==
    IF ext = ".astro" THEN line = <<"---">>
    ELSE line \in {<<"<script>">>, <<"<script setup>">>}

\* the line that closes it
IsRegionClose(line, ext) ==
    IF ext = ".astro" THEN line = <<"---">> ELSE line = <<"</script>">>

\* first line number >= from that satisfies the test for ext, 0 if none
FirstOpenFrom(lines, from, ext) ==
    LET hits == {i \in from..Len(lines) : IsRegionOpen(lines[i], ext)}
    IN IF hits = {} THEN 0 ELSE CHOOSE i \in hits : \A j \in hits : i <= j

FirstCloseFrom(lines, from, ext) ==
    LET hits == {i \in from..Len(lines) : IsRegionClose(lines[i], ext)}
    IN IF hits = {} THEN 0 ELSE CHOOSE i \in hits : \A j \in hits : i <= j

\* parseFrameworkFile(content, ext): whether the file has a script region, and
\* the line numbers of its opening and closing delimiter
parseFrameworkFile(content, ext) ==
    LET open  == IF ext \in FrameworkExts THEN FirstOpenFrom(content, 1, ext) ELSE 0
        close == IF open = 0 THEN 0 ELSE FirstCloseFrom(content, open + 1, ext)
    IN [isFrameworkFile |-> open # 0 /\ close # 0,
        framework       |-> ext,
        scriptStart     |-> open,
        scriptEnd       |-> close]

\* the number of the last line of the import declaration that begins at line
\* i: the first line from i on that ends the statement
ImportEnd(lines, i, last) ==
    LET ends == {j \in i..last : lines[j] # <<>> /\ lines[j][Len(lines[j])] = ";"}
    IN IF ends = {} THEN i ELSE CHOOSE j \in ends : \A k \in ends : j <= k

frameworkInsertIndexMutBeforeRegion(content, frameworkResult) ==
    frameworkResult.scriptStart - 1

\* insertImportsIntoFramework: the number of lines before the insertion point:
\* after the last import declaration of the region, or after the opening
\* delimiter when the region has no import
frameworkInsertIndex(content, frameworkResult) ==
    LET open    == frameworkResult.scriptStart
        close   == frameworkResult.scriptEnd
        imports == {i \in (open + 1)..(close - 1) : StartsWithImport(content[i])}
    IN IF imports = {} THEN open
       ELSE ImportEnd(content, CHOOSE i \in imports : \A j \in imports : j <= i,
                      close - 1)

\* insertImportsIntoFramework(content, newImports, frameworkResult)
insertImportsIntoFramework(content, newImports, frameworkResult) ==
    Splice(content, frameworkInsertIndex(content, frameworkResult), newImports)

\* applyFixes(): the number of lines before the insertion point
insertAt(content, ext) ==
    LET frameworkResult == parseFrameworkFile(content, ext)
    IN IF frameworkResult.isFrameworkFile
       THEN frameworkInsertIndex(content, frameworkResult)
       ELSE insertIndexOf(content)

\* applyFixes(): the new content of one file
newContentOf(content, ext, newImports) ==
    LET frameworkResult == parseFrameworkFile(content, ext)
    IN IF frameworkResult.isFrameworkFile
       THEN insertImportsIntoFramework(content, newImports, frameworkResult)
       ELSE insertPlain(content, newImports)

(***************************************************************************)
(* The project: every file holds one of these texts                        *)
(***************************************************************************)
MaxRuns == 2
MaxReadFailures == 1

Call(name) == <<name, "(", ")", ";">>

ExportsAB ==
    << <<"export", "const", "A", "=", "1", ";">>,
       <<"export", "const", "B", "=", "1", ";">> >>

DefaultA ==
    << <<"export", "default", "function", "A", "(", ")", "{", "}">> >>

UseAH == << Call("A"), Call("H") >>

CommentUseBA == << <<"//", "c">>, <<>>, Call("B"), Call("A") >>

MultiImportUseA ==
    << <<"import", "{">>,
       <<"Z", ",">>,
       <<"}", "from", "'", "z", "'", ";">>,
       Call("Z"),
       Call("A") >>

UseH == << Call("H") >>

Texts == {ExportsAB, DefaultA, UseAH, CommentUseBA, MultiImportUseA, UseH}

Identifiers == {"A", "B", "H", "Z"}

NoCall == [made |-> FALSE, identifier |-> "", currentFile |-> Walk[1],
           entry |-> 0, result |-> None]

NoEdit == [made |-> FALSE, ext |-> ".ts", header |-> <<>>, statements |-> <<>>,
           footer |-> <<>>, lines |-> <<>>, newImports |-> <<>>, at |-> 0,
           result |-> <<>>]

\* the --extensions default of createCli
CliDefaultExtensions == {".ts", ".tsx", ".js", ".jsx", ".vue", ".svelte", ".astro"}

\* CliOptions: extensions as the set scan() is given, ignore as the set of
\* directory names d of the patterns **/d/**
CliDefault == [extensions |-> CliDefaultExtensions, ignore |-> {}]

CliIgnoreSub == [extensions |-> CliDefaultExtensions, ignore |-> {"sub"}]

\* "paths": {"@sub/*": ["sub/*"]}
AliasSub ==
    TsConfig(<<".">>, <<AliasEntry(<<"@sub/", "*">>, TRUE, <<TargetPath(<<"sub", "*">>)>>)>>)

WildEntry(prefix, segs) == AliasEntry(<<prefix, "*">>, TRUE, <<TargetPath(segs)>>)

\* "paths": {"@/*": ["./*"]}
AliasRoot == TsConfig(<<".">>, <<WildEntry("@/", <<".", "*">>)>>)

\* "baseUrl": "sub", "paths": {"@/*": ["./*"]}
AliasBaseSub == TsConfig(<<"sub">>, <<WildEntry("@/", <<".", "*">>)>>)

\* "paths": {"@/*": ["./*"], "@sub/*": ["sub/*"]}
AliasNested ==
    TsConfig(<<".">>, <<WildEntry("@/", <<".", "*">>), WildEntry("@sub/", <<"sub", "*">>)>>)

\* "paths": {"@app/*": ["./*"], "~/*": ["sub/*"]}
AliasNestedShortPrefix ==
    TsConfig(<<".">>, <<WildEntry("@app/", <<".", "*">>), WildEntry("~/", <<"sub", "*">>)>>)

\* "paths": {"@s/*": ["sub/*"], "@long/*": ["sub/*"]}
AliasSameTarget ==
    TsConfig(<<".">>, <<WildEntry("@s/", <<"sub", "*">>), WildEntry("@long/", <<"sub", "*">>)>>)

\* "paths": {"ui": ["sub/ui"]}
AliasExact ==
    TsConfig(<<".">>, <<AliasEntry(<<"ui">>, TRUE, <<TargetPath(<<"sub", "ui">>)>>)>>)

\* "paths": {"@/*": ["./*"], "@bad/*": [42]}
AliasBadTarget ==
    TsConfig(<<".">>, <<WildEntry("@/", <<".", "*">>),
                        AliasEntry(<<"@bad/", "*">>, TRUE, <<TargetOther>>)>>)

\* "paths": {"@x/*": "sub/*", "@none/*": [], "@/*": ["./*"]}
AliasNoList ==
    TsConfig(<<".">>, <<AliasEntry(<<"@x/", "*">>, FALSE, <<>>),
                        AliasEntry(<<"@none/", "*">>, TRUE, <<>>),
                        WildEntry("@/", <<".", "*">>)>>)

\* the projects: the alias configuration and the options the tool is run with
Setups == {[tsconfig |-> TsConfigAbsent, cli |-> CliDefault],
           [tsconfig |-> AliasSub,       cli |-> CliIgnoreSub]}

NoPathCall == [made |-> FALSE, fromFile |-> Walk[1], toFile |-> Walk[1], result |-> ""]

NoParseCall == [made |-> FALSE, input |-> <<>>, output |-> <<>>]

\* the setup wizard before runSetupWizard is called
NoWizard == [pc |-> "off", stepIndex |-> 0, selectedExtensions |-> {},
             hasTsconfig |-> FALSE, useAliases |-> FALSE, written |-> <<>>,
             backs |-> 0, completed |-> {}, result |-> "none", summary |-> None]

InitOf(setups) ==
    /\ \E setup \in setups : tsconfig = setup.tsconfig /\ cliOptions = setup.cli
    /\ pathAliases = <<>>
    /\ options = DefaultResolverOptions
    /\ pathCall = NoPathCall
    /\ parseCall = NoParseCall
    /\ wizard = NoWizard
    /\ disk \in [Paths -> Texts]
    /\ diskAtStart = disk
    /\ pc = "idle"
    /\ runNo = 0
    /\ dryRun = FALSE
    /\ exportCache = <<>>
    /\ walkPos = 0
    /\ files = <<>>
    /\ allMissingImports = <<>>
    /\ filesWithIssues = 0
    /\ fileMap = <<>>
    /\ writes = [f \in Paths |-> 0]
    /\ readFailed = {}
    /\ history = {}
    /\ call = NoCall
    /\ edit = NoEdit

Init == InitOf(Setups)

(***************************************************************************)
(* AutoImportCli.run, one action per await                                 *)
(***************************************************************************)
resolvedPairs(all) ==
    {<<all[i].file, all[i].identifier>> : i \in {k \in 1..Len(all) : all[k].suggestion # None}}

\* buildExportCache: this.pathAliases after `if (this.options.useAliases)
\* await this.loadPathAliases()` on a new resolver
newPathAliases(opts, config) ==
    IF opts.useAliases THEN loadPathAliases(config) ELSE <<>>

\* createCli's action: new AutoImportCli().run(directory, options), up to the
\* glob of buildExportCache.  A run follows a completed run that fixed files.
StartRun ==
    /\ \/ pc = "idle"
       \/ pc = "done" /\ ~dryRun
    /\ runNo < MaxRuns
    /\ \E d \in BOOLEAN : dryRun' = d
    /\ runNo' = runNo + 1
    /\ history' = IF pc = "done" THEN resolvedPairs(allMissingImports) ELSE {}
    /\ pc' = "index"
    /\ exportCache' = <<>>
    /\ walkPos' = 0
    /\ files' = <<>>
    /\ allMissingImports' = <<>>
    /\ filesWithIssues' = 0
    /\ fileMap' = <<>>
    /\ writes' = [f \in Paths |-> 0]
    /\ diskAtStart' = disk
    /\ options' = DefaultResolverOptions
    /\ pathAliases' = newPathAliases(DefaultResolverOptions, tsconfig)
    /\ UNCHANGED <<disk, readFailed, call, edit, tsconfig, cliOptions, pathCall, parseCall, wizard>>

\* buildExportCache: one iteration, the file is read
IndexFileOk ==
    /\ pc = "index"
    /\ walkPos < Len(globFiles)
    /\ LET filePath == globFiles[walkPos + 1]
       IN exportCache' = indexReadable(exportCache, filePath, disk[filePath])
    /\ walkPos' = walkPos + 1
    /\ UNCHANGED <<disk, diskAtStart, pc, runNo, dryRun, files, allMissingImports,
                   filesWithIssues, fileMap, writes, readFailed, history, call, edit,
                   tsconfig, pathAliases, options, cliOptions, pathCall, parseCall, wizard>>

\* buildExportCache: one iteration, readFile throws
IndexFileFail ==
    /\ pc = "index"
    /\ walkPos < Len(globFiles)
    /\ Cardinality(readFailed) < MaxReadFailures
    /\ exportCache' = indexUnreadable(exportCache, globFiles[walkPos + 1])
    /\ walkPos' = walkPos + 1
    /\ readFailed' = readFailed \cup {<<runNo, "index", globFiles[walkPos + 1]>>}
    /\ UNCHANGED <<disk, diskAtStart, pc, runNo, dryRun, files, allMissingImports,
                   filesWithIssues, fileMap, writes, history, call, edit,
                   tsconfig, pathAliases, options, cliOptions, pathCall, parseCall, wizard>>

\* FileScanner.scan: the files to analyze, with their content
scanFiles(d) ==
    LET scanned == SelectSeq(Walk, LAMBDA f :
                       /\ f.ext \in cliOptions.extensions
                       /\ Range(f.dir) \cap cliOptions.ignore = {})
    IN [i \in 1..Len(scanned) |-> [path |-> scanned[i], content |-> d[scanned[i]]]]

Scan ==
    /\ pc = "index"
    /\ walkPos = Len(globFiles)
    /\ files' = scanFiles(disk)
    /\ pc' = "analyze"
    /\ UNCHANGED <<disk, diskAtStart, runNo, dryRun, exportCache, walkPos,
                   allMissingImports, filesWithIssues, fileMap, writes, readFailed,
                   history, call, edit,
                   tsconfig, pathAliases, options, cliOptions, pathCall, parseCall, wizard>>

skipApplyMutNever(isDryRun, fixable) == fixable = <<>>

\* run(): whether applyFixes is not called
skipApply(isDryRun, fixable) == isDryRun \/ Len(fixable) = 0

\* run(): the analysis loop, the summary and the branch on options.dryRun, up
\* to the first readFile of applyFixes
Analyze ==
    /\ pc = "analyze"
    /\ LET all     == analyzeAll(exportCache, files)
           fixable == fixableOf(all)
       IN /\ allMissingImports' = all
          /\ filesWithIssues' = countFilesWithIssues(files)
          /\ IF skipApply(dryRun, fixable)
             THEN pc' = "done" /\ fileMap' = <<>>
             ELSE pc' = "apply" /\ fileMap' = groupByFile(fixable)
    /\ exportCache' = analyzeAllCache(exportCache, files)
    /\ walkPos' = 0
    /\ UNCHANGED <<disk, diskAtStart, runNo, dryRun, files, writes,
                   readFailed, history, call, edit,
                   tsconfig, pathAliases, options, cliOptions, pathCall, parseCall, wizard>>

\* applyFixes: one iteration of the loop over fileMap, the file is read
ApplyFileOk ==
    /\ pc = "apply"
    /\ walkPos < Len(fileMap)
    /\ LET filePath   == fileMap[walkPos + 1].file
           content    == disk[filePath]
           newImports == newImportsOf(fileMap[walkPos + 1].imports)
       IN IF Len(newImports) = 0
          THEN UNCHANGED <<disk, writes>>
          ELSE /\ disk' = [disk EXCEPT
                              ![filePath] = newContentOf(content, filePath.ext, newImports)]
               /\ writes' = [writes EXCEPT ![filePath] = @ + 1]
    /\ walkPos' = walkPos + 1
    /\ pc' = IF walkPos + 1 = Len(fileMap) THEN "done" ELSE "apply"
    /\ UNCHANGED <<diskAtStart, runNo, dryRun, exportCache, files, allMissingImports,
                   filesWithIssues, fileMap, readFailed, history, call, edit,
                   tsconfig, pathAliases, options, cliOptions, pathCall, parseCall, wizard>>

\* applyFixes: readFile throws; the error leaves applyFixes and run, and the
\* catch of createCli's action ends the process
ApplyFileFail ==
    /\ pc = "apply"
    /\ walkPos < Len(fileMap)
    /\ Cardinality(readFailed) < MaxReadFailures
    /\ readFailed' = readFailed \cup {<<runNo, "apply", fileMap[walkPos + 1].file>>}
    /\ pc' = "aborted"
    /\ UNCHANGED <<disk, diskAtStart, runNo, dryRun, exportCache, walkPos, files,
                   allMissingImports, filesWithIssues, fileMap, writes, history,
                   call, edit,
                   tsconfig, pathAliases, options, cliOptions, pathCall, parseCall, wizard>>

Next ==
    \/ StartRun
    \/ IndexFileOk
    \/ IndexFileFail
    \/ Scan
    \/ Analyze
    \/ ApplyFileOk
    \/ ApplyFileFail

Spec == Init /\ [][Next]_vars

(***************************************************************************)
(* Resolver harness: direct calls of resolveImport on the built index      *)
(***************************************************************************)
\* a file that is not part of the walk
OutsideFile == File(<<"p">>, "x", ".ts")

ResolveCall ==
    /\ pc = "index"
    /\ walkPos = Len(globFiles)
    /\ ~call.made
    /\ \E identifier \in Identifiers, currentFile \in Paths \cup {OutsideFile} :
          /\ call' = [made        |-> TRUE,
                      identifier  |-> identifier,
                      currentFile |-> currentFile,
                      entry       |-> resolveEntry(exportCache, identifier, currentFile),
                      result      |-> resolveImport(exportCache, identifier, currentFile)]
          /\ exportCache' = resolveImportCache(exportCache, identifier, currentFile)
    /\ UNCHANGED <<disk, diskAtStart, pc, runNo, dryRun, walkPos, files,
                   allMissingImports, filesWithIssues, fileMap, writes, readFailed,
                   history, edit,
                   tsconfig, pathAliases, options, cliOptions, pathCall, parseCall, wizard>>

\* the options a resolver is constructed with: the defaults, a custom plugin
\* list, aliases switched off
PythonOnly == [DefaultResolverOptions EXCEPT !.plugins = {"python"}]

NoAliases == [DefaultResolverOptions EXCEPT !.useAliases = FALSE]

ResolverOptionSets == {DefaultResolverOptions, PythonOnly, NoAliases}

\* new ImportResolver(opts) and buildExportCache() up to its glob
NewResolver ==
    /\ pc = "idle"
    /\ \E opts \in ResolverOptionSets :
          /\ options' = opts
          /\ pathAliases' = newPathAliases(opts, tsconfig)
    /\ pc' = "index"
    /\ exportCache' = <<>>
    /\ walkPos' = 0
    /\ UNCHANGED <<disk, diskAtStart, runNo, dryRun, files, allMissingImports,
                   filesWithIssues, fileMap, writes, readFailed, history, call, edit,
                   tsconfig, cliOptions, pathCall, parseCall, wizard>>

NextResolve ==
    \/ NewResolver
    \/ IndexFileOk
    \/ IndexFileFail
    \/ ResolveCall

\* the projects the resolver is constructed in
ResolveSetups ==
    Setups \cup {[tsconfig |-> c, cli |-> CliDefault] :
                    c \in {TsConfigUnparseable, AliasBadTarget, AliasNoList}}

InitResolve == InitOf(ResolveSetups)

SpecResolve == InitResolve /\ [][NextResolve]_vars

(***************************************************************************)
(* Claims                                                                  *)
(***************************************************************************)
Min(S) == CHOOSE x \in S : \A y \in S : x <= y

\* the entries of the cache, other than the consuming file's, that export name
Exporters(cache, name, consumingFile) ==
    {i \in 1..Len(cache) :
        /\ cache[i].file # consumingFile
        /\ \E k \in 1..Len(cache[i].exports) : cache[i].exports[k].name = name}

\* C1: resolveImport returns the export of the first file in index order that
\* is not the consuming file and exports the identifier, and returns null
\* exactly when there is no such file; a later exporter is never chosen.
C1_FirstMatchWins ==
    call.made =>
        LET q == Exporters(exportCache, call.identifier, call.currentFile)
        IN /\ (call.result = None) <=> (q = {})
           /\ q # {} =>
                LET first == exportCache[Min(q)]
                    k0    == Min({k \in 1..Len(first.exports) :
                                    first.exports[k].name = call.identifier})
                IN /\ call.entry = Min(q)
                   /\ call.result[1].name = call.identifier
                   /\ call.result[1].isDefault = first.exports[k0].isDefault
                   /\ call.result[1].source =
                        getRelativeImportPath(call.currentFile, first.file)

\* C1 witness: two other files export the identifier and the call returned one
C1_Witness ==
    /\ call.made
    /\ Cardinality(Exporters(exportCache, call.identifier, call.currentFile)) >= 2
    /\ call.result # None
    /\ \E i \in 1..Len(exportCache) :
          /\ exportCache[i].file = call.currentFile
          /\ i < call.entry

\* C2: a suggestion never comes from the consuming file itself: its specifier
\* is that of another indexed file exporting the identifier, never the
\* file's own; a name only the consuming file exports gets no suggestion; and
\* no import statement written to a file names the file itself.
SelfSpecifier(f) == getRelativeImportPath(f, f)

C2_NeverOwnFile ==
    /\ \A i \in 1..Len(allMissingImports) :
          LET m == allMissingImports[i]
              q == Exporters(exportCache, m.identifier, m.file)
          IN /\ q = {} => m.suggestion = None
             /\ m.suggestion # None =>
                   /\ m.suggestion[1].source # SelfSpecifier(m.file)
                   /\ \E j \in q : m.suggestion[1].source =
                                     getRelativeImportPath(m.file, exportCache[j].file)
    /\ \A f \in Paths :
          disk[f] # diskAtStart[f] =>
             \A imp \in Range(parseImports(disk[f])) \ Range(parseImports(diskAtStart[f])) :
                 imp.source # SelfSpecifier(f)

\* C2 witness: the consuming file exports the identifier it misses, another
\* file exports it too, and the import written points to the other file
C2_Witness ==
    \E i \in 1..Len(allMissingImports) :
        LET m == allMissingImports[i]
        IN /\ \E j \in 1..Len(exportCache) :
                 /\ exportCache[j].file = m.file
                 /\ findExport(exportCache[j].exports, m.identifier) # 0
           /\ m.suggestion # None
           /\ writes[m.file] = 1

\* the files whose read failed in the given phase of the current run
FailedIn(phase) == {f \in Paths : <<runNo, phase, f>> \in readFailed}

\* the number of files the index build has gone through
Indexed == IF pc = "idle" THEN 0 ELSE IF pc = "index" THEN walkPos ELSE Len(globFiles)

\* C9: an unreadable file is skipped by the index build and never ends it: at
\* every point of the build and when it is over, each file gone through has
\* no entry at all if its read failed, and has its complete export list as
\* its entry if it was read and has exports, wherever the unreadable files
\* are in the walk; the run is never aborted by the build.
C9_UnreadableSkipped ==
    /\ pc \in {"index", "analyze"} =>
          \A i \in 1..Indexed :
              LET f       == globFiles[i]
                  exports == parseExportsLegacy(diskAtStart[f], f)
                  entries == {j \in 1..Len(exportCache) : exportCache[j].file = f}
              IN IF f \in FailedIn("index") \/ exports = <<>>
                 THEN entries = {}
                 ELSE /\ Cardinality(entries) = 1
                      /\ \A j \in entries : exportCache[j].exports = exports
    /\ \A j \in 1..Len(exportCache) :
          \E i \in 1..Indexed : globFiles[i] = exportCache[j].file
    /\ pc = "aborted" => FailedIn("apply") # {}

\* C9 witness: the build is over, a file with exports could not be read, and
\* files before and after it in the walk have their entries
C9_Witness ==
    /\ pc = "analyze"
    /\ \E i \in 2..(Len(globFiles) - 1) :
          /\ globFiles[i] \in FailedIn("index")
          /\ parseExportsLegacy(diskAtStart[globFiles[i]], globFiles[i]) # <<>>
          /\ \E j \in 1..Len(exportCache) : exportCache[j].file = globFiles[i - 1]
          /\ \E j \in 1..Len(exportCache) : exportCache[j].file = globFiles[i + 1]

\* the resolved entries of the current run for file f, in push order
ResolvedFor(f) ==
    SelectSeq(allMissingImports, LAMBDA m : m.file = f /\ m.suggestion # None)

\* the lines of f that were not there when the run started
AddedLines(f) == Range(disk[f]) \ Range(diskAtStart[f])

Analyzed == pc \in {"apply", "done", "aborted"}

\* C4: an import line is written for a (file, identifier) pair only if the
\* resolver matched it; an identifier no file exports is reported without a
\* suggestion and the run goes on to report every missing identifier; a file
\* whose missing identifiers are all unresolvable is never written and keeps
\* its content.
C4_OnlyResolvedWritten ==
    /\ \A f \in Paths :
          /\ \A line \in AddedLines(f) :
                \E i \in 1..Len(allMissingImports) :
                    LET m == allMissingImports[i]
                    IN /\ m.file = f
                       /\ Exporters(exportCache, m.identifier, f) # {}
                       /\ m.suggestion # None
                       /\ line = importStatement(m)
          /\ ResolvedFor(f) = <<>> => writes[f] = 0 /\ disk[f] = diskAtStart[f]
    /\ Analyzed =>
          \A i \in 1..Len(files) :
              \A name \in Range(missingImportsOf(files[i].content)) :
                  \E k \in 1..Len(allMissingImports) :
                      LET m == allMissingImports[k]
                      IN /\ m.file = files[i].path
                         /\ m.identifier = name
                         /\ (Exporters(exportCache, name, m.file) = {}
                               => m.suggestion = None)

\* C4 witness: a non-dry run is over; one file had only unresolvable
\* identifiers and is unchanged, another file was fixed
C4_Witness ==
    /\ pc = "done"
    /\ ~dryRun
    /\ \E f, g \in Paths :
          /\ ResolvedFor(f) = <<>>
          /\ \E i \in 1..Len(allMissingImports) :
                allMissingImports[i].file = f /\ allMissingImports[i].suggestion = None
          /\ disk[f] = diskAtStart[f]
          /\ writes[g] = 1

\* C5: in dry-run mode applyFixes is never reached and no file is written:
\* every file has the content it had when the run started.
C5_DryRunWritesNothing ==
    (runNo >= 1 /\ dryRun) =>
        /\ disk = diskAtStart
        /\ \A f \in Paths : writes[f] = 0
        /\ pc \notin {"apply", "aborted"}
        /\ fileMap = <<>>

\* C5 witness: a dry run is over and it had resolvable missing imports
C5_Witness ==
    /\ pc = "done"
    /\ dryRun
    /\ fixableOf(allMissingImports) # <<>>

\* C6: a file with k >= 1 resolved missing imports is edited as one batch: it
\* is written at most once in the run and exactly once when the run is over;
\* its new content is its original content with the k import statements, in
\* resolution order, as one block at the insertion point of the original
\* text.  A file without resolved imports is not written.
C6_OneBatchPerFile ==
    (runNo >= 1 /\ ~dryRun) =>
        \A f \in Paths :
            LET block == [k \in 1..Len(ResolvedFor(f)) |->
                            importStatement(ResolvedFor(f)[k])]
                orig  == diskAtStart[f]
            IN /\ writes[f] <= 1
               /\ writes[f] = 0 => disk[f] = orig
               /\ writes[f] = 1 =>
                     /\ Len(block) >= 1
                     /\ disk[f] = Splice(orig, insertIndexOf(orig), block)
               /\ (pc = "done" /\ Len(block) >= 1) => writes[f] = 1

\* C6 witness: a run is over in which a file got two imports in one write
C6_Witness ==
    /\ pc = "done"
    /\ \E f \in Paths :
          /\ Len(ResolvedFor(f)) = 2
          /\ writes[f] = 1
          /\ Len(disk[f]) = Len(diskAtStart[f]) + 2

\* C10 (as claimed): a file that cannot be read while the fixes are applied
\* fails alone: the run is not aborted, and when the run is over every other
\* file with resolved imports has been fixed, those after the unreadable file
\* in the loop included.
C10_FileGranularity ==
    /\ pc # "aborted"
    /\ (pc \in {"done", "aborted"} /\ ~dryRun) =>
          \A f \in Paths :
              (ResolvedFor(f) # <<>> /\ f \notin FailedIn("apply")) => writes[f] = 1

\* C10: the state the code reaches: the first of two files to fix could not be
\* read, the run is aborted and the second file was never written
C10_Aborted ==
    /\ pc = "aborted"
    /\ Len(fileMap) >= 2
    /\ fileMap[1].file \in FailedIn("apply")
    /\ writes[fileMap[2].file] = 0

\* C3 (as claimed): once a non-dry run has completed, the next run reports no
\* missing import for any (file, identifier) pair that run resolved, and
\* adds no import statement for such a pair.
C3_Idempotent ==
    runNo >= 2 =>
        /\ \A i \in 1..Len(allMissingImports) :
              <<allMissingImports[i].file, allMissingImports[i].identifier>> \notin history
        /\ \A f \in Paths : \A i \in 1..Len(allMissingImports) :
              LET m == allMissingImports[i]
              IN (m.file = f /\ m.suggestion # None /\ <<f, m.identifier>> \in history)
                    => importStatement(m) \notin AddedLines(f)

\* C3: the state the code reaches: the second run reports a pair again that
\* the first run resolved and wrote
C3_ReportedAgain ==
    /\ runNo = 2
    /\ pc \in {"apply", "done"}
    /\ \E i \in 1..Len(allMissingImports) :
          /\ <<allMissingImports[i].file, allMissingImports[i].identifier>> \in history
          /\ allMissingImports[i].suggestion # None

\* a text that holds the opening line of an import declaration of several lines
HasOpenImportLine(content) ==
    \E i \in 1..Len(content) : content[i] = <<"import", "{">>

\* C3 restricted: every pair reported again belongs to a file with an import
\* declaration of several lines
C3_IdempotentSingleLine ==
    runNo >= 2 =>
        \A i \in 1..Len(allMissingImports) :
            LET m == allMissingImports[i]
            IN <<m.file, m.identifier>> \in history => HasOpenImportLine(disk[m.file])

(***************************************************************************)
(* Edit harness: the edit of applyFixes applied directly to a text.  A     *)
(* text is a sequence of statements, each one or more lines.               *)
(***************************************************************************)
MaxStatements == 4

SComment   == << <<"//", "c">> >>
SBlank     == << <<>> >>
SDocBlock  == << <<"/**">>, <<"*", "doc">>, <<"*/">> >>
SDirective == << <<"'", "use client", "'", ";">> >>
SImportZ   == << <<"import", "{", "Z", "}", "from", "'", "z", "'", ";">> >>
SImportY   == << <<"import", "Y", "from", "'", "y", "'", ";">> >>
SImportMulti ==
    << <<"import", "{">>,
       <<"X", ",">>,
       <<"}", "from", "'", "x", "'", ";">> >>
SCode      == << Call("A") >>

ImportStatements == {SImportZ, SImportY, SImportMulti}
CommentStatements == {SComment, SBlank, SDocBlock}
Statements == ImportStatements \cup CommentStatements \cup {SDirective, SCode}

StatementSeqs == UNION {[1..n -> Statements] : n \in 1..MaxStatements}

InitEdit ==
    /\ tsconfig = TsConfigAbsent
    /\ cliOptions = CliDefault
    /\ pathAliases = <<>>
    /\ options = DefaultResolverOptions
    /\ pathCall = NoPathCall
    /\ parseCall = NoParseCall
    /\ wizard = NoWizard
    /\ disk = [f \in Paths |-> UseH]
    /\ diskAtStart = disk
    /\ pc = "idle"
    /\ runNo = 0
    /\ dryRun = FALSE
    /\ exportCache = <<>>
    /\ walkPos = 0
    /\ files = <<>>
    /\ allMissingImports = <<>>
    /\ filesWithIssues = 0
    /\ fileMap = <<>>
    /\ writes = [f \in Paths |-> 0]
    /\ readFailed = {}
    /\ history = {}
    /\ call = NoCall
    /\ \E st \in StatementSeqs :
          edit = [NoEdit EXCEPT !.statements = st, !.lines = Flatten(st)]

\* a resolved MissingImport of Walk[1] for an export of Walk[2]
ResolvedItem(identifier, isDefault) ==
    makeMissingImport(identifier, Walk[1],
        Some(ExportInfo(identifier, getRelativeImportPath(Walk[1], Walk[2]),
                        isDefault, FALSE)))

\* applyFixes on one file with one or two resolved imports
ApplyEdit ==
    /\ ~edit.made
    /\ \E items \in { <<ResolvedItem("A", FALSE)>>,
                      <<ResolvedItem("A", TRUE)>>,
                      <<ResolvedItem("B", FALSE), ResolvedItem("A", FALSE)>> } :
          edit' = [edit EXCEPT
                     !.made = TRUE,
                     !.newImports = newImportsOf(items),
                     !.at = insertAt(edit.lines, edit.ext),
                     !.result = newContentOf(edit.lines, edit.ext, newImportsOf(items))]
    /\ UNCHANGED <<disk, diskAtStart, pc, runNo, dryRun, exportCache, walkPos, files,
                   allMissingImports, filesWithIssues, fileMap, writes, readFailed,
                   history, call,
                   tsconfig, pathAliases, options, cliOptions, pathCall, parseCall, wizard>>

NextEdit == ApplyEdit

SpecEdit == InitEdit /\ [][NextEdit]_vars

(***************************************************************************)
(* Component harness: applyFixes' edit on Vue, Svelte and Astro files      *)
(***************************************************************************)
\* the lines up to and including the opening delimiter of the script region
ComponentHeader(ext) ==
    IF ext = ".vue"
    THEN << <<"<template>">>, <<"msg">>, <<"</template>">>, <<"<script setup>">> >>
    ELSE IF ext = ".svelte" THEN << <<"<script>">> >>
    ELSE << <<"---">> >>

\* the lines from the closing delimiter on
ComponentFooter(ext) ==
    IF ext = ".vue" THEN << <<"</script>">> >>
    ELSE IF ext = ".svelte" THEN << <<"</script>">>, <<"<p>", "msg", "</p>">> >>
    ELSE << <<"---">>, <<"<p>", "msg", "</p>">> >>

InitComponent ==
    /\ tsconfig = TsConfigAbsent
    /\ cliOptions = CliDefault
    /\ pathAliases = <<>>
    /\ options = DefaultResolverOptions
    /\ pathCall = NoPathCall
    /\ parseCall = NoParseCall
    /\ wizard = NoWizard
    /\ disk = [f \in Paths |-> UseH]
    /\ diskAtStart = disk
    /\ pc = "idle"
    /\ runNo = 0
    /\ dryRun = FALSE
    /\ exportCache = <<>>
    /\ walkPos = 0
    /\ files = <<>>
    /\ allMissingImports = <<>>
    /\ filesWithIssues = 0
    /\ fileMap = <<>>
    /\ writes = [f \in Paths |-> 0]
    /\ readFailed = {}
    /\ history = {}
    /\ call = NoCall
    /\ \E ext \in FrameworkExts, st \in StatementSeqs :
          edit = [NoEdit EXCEPT
                    !.ext = ext,
                    !.header = ComponentHeader(ext),
                    !.statements = st,
                    !.footer = ComponentFooter(ext),
                    !.lines = ComponentHeader(ext) \o Flatten(st) \o ComponentFooter(ext)]

SpecComponent == InitComponent /\ [][NextEdit]_vars

\* the 1-based numbers of the lines of a text that start with "import "
ImportLines(lines) == {i \in 1..Len(lines) : StartsWithImport(lines[i])}

Max(S) == CHOOSE x \in S : \A y \in S : y <= x

\* the number of leading lines of a text that are blank or start a comment
RECURSIVE LeadingCommentLines(_)
LeadingCommentLines(lines) ==
    IF lines = <<>> \/ ~IsCommentOrBlank(Head(lines)) THEN 0
    ELSE 1 + LeadingCommentLines(Tail(lines))

\* C7 (as claimed): the insertion line is the line after the last line that
\* starts an import if the text has one; otherwise the line after the leading
\* block of blank and comment lines; otherwise line 0.
C7_InsertPosition ==
    edit.made =>
        edit.at = IF ImportLines(edit.lines) # {}
                  THEN Max(ImportLines(edit.lines))
                  ELSE LeadingCommentLines(edit.lines)

\* C7: the state the code reaches: the text has an import line below a line
\* of code, and the new imports were put at line 0
C7_CodeBeforeImport ==
    /\ edit.made
    /\ edit.statements = <<SDirective, SImportZ, SCode>>
    /\ edit.at = 0

\* the leading import statements of a text
RECURSIVE LeadingImports(_)
LeadingImports(statements) ==
    IF statements = <<>> \/ Head(statements) \notin ImportStatements THEN <<>>
    ELSE <<Head(statements)>> \o LeadingImports(Tail(statements))

\* C8 (as claimed): in a text that starts with its n >= 1 import statements
\* and has no other, one new import is placed right after the n-th, and the
\* result parses to n + 1 import statements: the original n, unchanged and in
\* order, then the new one.
C8_RoundTrip ==
    (edit.made /\ Len(edit.newImports) = 1) =>
        LET lead == LeadingImports(edit.statements)
            n    == Len(lead)
            rest == SubSeq(edit.statements, n + 1, Len(edit.statements))
            old  == parseImports(edit.lines)
            new  == parseImports(edit.result)
        IN (n >= 1 /\ \A k \in 1..Len(rest) : rest[k] \notin ImportStatements) =>
              /\ edit.result = Flatten(lead) \o edit.newImports \o Flatten(rest)
              /\ Len(old) = n
              /\ Len(new) = n + 1
              /\ SubSeq(new, 1, n) = old
              /\ new[n + 1] = parseImports(edit.newImports)[1]

\* C8: the state the code reaches: the last leading import spans three lines
\* and the new import is its second line
C8_InsideDeclaration ==
    /\ edit.made
    /\ edit.statements = <<SImportZ, SImportMulti, SCode>>
    /\ Len(edit.newImports) = 1
    /\ edit.result[3] = edit.newImports[1]

\* C8 restricted to one-line import statements
C8_RoundTripOneLine ==
    (edit.made /\ SImportMulti \notin Range(edit.statements)) => C8_RoundTrip

(***************************************************************************)
(* Path harness: loadPathAliases on a new resolver, then direct calls of   *)
(* getRelativeImportPath, as the resolver's tests make them.               *)
(***************************************************************************)
PathDirs == {<<"p">>, <<"p", "sub">>, <<"p", "sub", "ui">>, <<"p", "sub", "uikit">>,
             <<"p", ".config">>}

PathNames == {"Card", "config.test"}

PathExts == {".ts", ".tsx", ".py", ".vue", ".rs"}

PathFiles == {File(d, n, e) : d \in PathDirs, n \in PathNames, e \in PathExts}

AliasConfigs == {TsConfigAbsent, TsConfigUnparseable, AliasRoot, AliasBaseSub, AliasSub,
                 AliasNested, AliasNestedShortPrefix, AliasSameTarget, AliasExact,
                 AliasBadTarget, AliasNoList}

InitPath ==
    /\ tsconfig \in AliasConfigs
    /\ cliOptions = CliDefault
    /\ pathAliases = <<>>
    /\ options = DefaultResolverOptions
    /\ pathCall = NoPathCall
    /\ parseCall = NoParseCall
    /\ wizard = NoWizard
    /\ disk = [f \in Paths |-> UseH]
    /\ diskAtStart = disk
    /\ pc = "idle"
    /\ runNo = 0
    /\ dryRun = FALSE
    /\ exportCache = <<>>
    /\ walkPos = 0
    /\ files = <<>>
    /\ allMissingImports = <<>>
    /\ filesWithIssues = 0
    /\ fileMap = <<>>
    /\ writes = [f \in Paths |-> 0]
    /\ readFailed = {}
    /\ history = {}
    /\ call = NoCall
    /\ edit = NoEdit

\* new ImportResolver(opts), and the alias loading of its buildExportCache
LoadAliases ==
    /\ pc = "idle"
    /\ \E useAliases \in BOOLEAN :
          LET opts == [DefaultResolverOptions EXCEPT !.useAliases = useAliases]
          IN /\ options' = opts
             /\ pathAliases' = newPathAliases(opts, tsconfig)
    /\ pc' = "loaded"
    /\ UNCHANGED <<disk, diskAtStart, runNo, dryRun, exportCache, walkPos, files,
                   allMissingImports, filesWithIssues, fileMap, writes, readFailed,
                   history, call, edit, tsconfig, cliOptions, pathCall, parseCall, wizard>>

RelativizeCall ==
    /\ pc = "loaded"
    /\ ~pathCall.made
    /\ \E fromFile \in PathFiles, toFile \in PathFiles :
          pathCall' = [made     |-> TRUE,
                       fromFile |-> fromFile,
                       toFile   |-> toFile,
                       result   |-> getRelativeImportPath(fromFile, toFile)]
    /\ UNCHANGED <<disk, diskAtStart, pc, runNo, dryRun, exportCache, walkPos, files,
                   allMissingImports, filesWithIssues, fileMap, writes, readFailed,
                   history, call, edit, tsconfig, pathAliases, options, cliOptions,
                   parseCall, wizard>>

NextPath ==
    \/ LoadAliases
    \/ RelativizeCall

SpecPath == InitPath /\ [][NextPath]_vars

\* the aliases of the loaded list whose target the file's path starts with
MatchingAliases(toFile) ==
    {i \in 1..Len(pathAliases) :
        IsPrefixOf(pathAliases[i].targetPrefix, absolutePath(toFile))}

\* the place of an alias in the order of the configuration file
ConfigIndex(alias) ==
    CHOOSE k \in 1..Len(tsconfig.paths) : JoinStr(tsconfig.paths[k].pattern) = alias.pattern

\* the specifier built from one alias
AliasSpecifier(alias, toFile) ==
    alias.prefix \o JoinStr(withoutExt(SubSeq(absolutePath(toFile),
                                              Len(alias.targetPrefix) + 1,
                                              Len(absolutePath(toFile)))))

\* C11 (as claimed): when several aliases match the defining file, the
\* specifier is built from the one with the longest target directory, and
\* among those with targets of equal length from the one that comes first in
\* the configuration, whatever the lengths of the alias prefixes.
C11_LongestTargetWins ==
    (pathCall.made /\ MatchingAliases(pathCall.toFile) # {}) =>
        LET matching == MatchingAliases(pathCall.toFile)
            best == CHOOSE i \in matching :
                       \A j \in matching \ {i} :
                           \/ Len(pathAliases[i].targetPrefix) > Len(pathAliases[j].targetPrefix)
                           \/ /\ Len(pathAliases[i].targetPrefix) = Len(pathAliases[j].targetPrefix)
                              /\ ConfigIndex(pathAliases[i]) < ConfigIndex(pathAliases[j])
        IN pathCall.result = AliasSpecifier(pathAliases[best], pathCall.toFile)

\* C11: the state the code reaches: "~/" with target sub/ matches, and the
\* specifier is built from "@app/", whose target is the project root
C11_ShorterTargetChosen ==
    /\ pathCall.made
    /\ tsconfig = AliasNestedShortPrefix
    /\ pathCall.toFile = File(<<"p", "sub">>, "Card", ".ts")
    /\ Cardinality(MatchingAliases(pathCall.toFile)) = 2
    /\ pathCall.result = "@app/sub/Card"

\* C11 restricted: the specifier is built from the matching alias with the
\* longest alias prefix, the first in the configuration among equals
C11_LongestPrefixWins ==
    (pathCall.made /\ MatchingAliases(pathCall.toFile) # {}) =>
        LET matching == MatchingAliases(pathCall.toFile)
            best == CHOOSE i \in matching :
                       \A j \in matching \ {i} :
                           \/ Len(pathAliases[i].prefix) > Len(pathAliases[j].prefix)
                           \/ /\ Len(pathAliases[i].prefix) = Len(pathAliases[j].prefix)
                              /\ ConfigIndex(pathAliases[i]) < ConfigIndex(pathAliases[j])
        IN pathCall.result = AliasSpecifier(pathAliases[best], pathCall.toFile)


(***************************************************************************)
(* C12: the relative specifier                                             *)
(***************************************************************************)
\* getRelativeImportPath took the relative branch: no alias list, or no alias
\* whose target the defining file lies under
NoAliasApplies(toFile) ==
    \/ Len(pathAliases) = 0
    \/ getAliasImportPath(pathAliases, toFile) = None

\* the defining file's name with the source extension removed
BaseName(toFile) ==
    IF toFile.ext \in StrippedExts THEN toFile.name ELSE toFile.name \o toFile.ext

\* the path from directory fromDir to the file toFile, as its components
RelativeParts(fromDir, toFile) ==
    LET k == CommonPrefixLen(fromDir, toFile.dir)
    IN [i \in 1..(Len(fromDir) - k) |-> ".."]
       \o SubSeq(toFile.dir, k + 1, Len(toFile.dir))
       \o <<BaseName(toFile)>>

\* the texts that can follow the first component of a specifier
SpecifierTails ==
    {JoinPath(ups \o downs \o <<BaseName(f)>>) :
        ups \in {<<>>, <<"..">>},
        downs \in {<<>>, <<"sub">>, <<"sub", "ui">>, <<"ui">>, <<".config">>,
                   <<"sub", "uikit">>, <<"uikit">>},
        f \in PathFiles}

BeginsWithDot(specifier) ==
    \E head \in {"./", "../", ".config/"}, tail \in SpecifierTails :
        specifier = head \o tail

\* C12: when no alias applies, the specifier is the relative path from the
\* directory of fromFile to toFile without the source extension, prefixed with
\* "./" unless it already starts with "."; same directory gives ./Name, parent
\* directory ../Name, a sub-directory ./sub/Name; the specifier begins with "."
C12_RelativeSpecifier ==
    (pathCall.made /\ NoAliasApplies(pathCall.toFile)) =>
        LET from  == pathCall.fromFile
            to    == pathCall.toFile
            parts == RelativeParts(from.dir, to)
            rel   == JoinPath(parts)
        IN /\ pathCall.result = IF StartsWithDot(parts[1]) THEN rel ELSE "./" \o rel
           /\ to.dir = from.dir => pathCall.result = "./" \o BaseName(to)
           /\ (Len(from.dir) > 1 /\ to.dir = SubSeq(from.dir, 1, Len(from.dir) - 1))
                 => pathCall.result = "../" \o BaseName(to)
           /\ \A sub \in {"sub", "ui", "uikit"} :
                 to.dir = Append(from.dir, sub)
                    => pathCall.result = "./" \o sub \o "/" \o BaseName(to)
           /\ BeginsWithDot(pathCall.result)

\* a call into a sub-directory with no alias configured: "./sub/Card"
C12_SubDirectoryCall ==
    /\ pathCall.made
    /\ pathAliases = <<>>
    /\ pathCall.fromFile = File(<<"p">>, "Card", ".tsx")
    /\ pathCall.toFile = File(<<"p", "sub">>, "Card", ".ts")
    /\ pathCall.result = "./sub/Card"


(***************************************************************************)
(* C13: the source of a suggestion                                         *)
(***************************************************************************)
\* the relative specifiers between files of the walk, after their first
\* component
WalkTails ==
    {JoinPath(ups \o downs \o <<BaseName(Walk[i])>>) :
        ups \in {<<>>, <<"..">>}, downs \in {<<>>, <<"sub">>}, i \in 1..Len(Walk)}

\* an alias-prefixed path of toFile, or a relative path starting with "."
IsComputedSpecifier(specifier, toFile) ==
    \/ \E i \in MatchingAliases(toFile) :
          specifier = AliasSpecifier(pathAliases[i], toFile)
    \/ \E head \in {"./", "../"}, tail \in WalkTails : specifier = head \o tail

\* C13: every suggestion of a run has a computed specifier as its source (an
\* alias-prefixed path or a relative path starting with "."), never the
\* absolute path of the defining file; name, isDefault and isType of the
\* matched export are returned unchanged; the exports of the index keep the
\* defining file as their source.
C13_ComputedSource ==
    /\ \A i \in 1..Len(exportCache) : \A k \in 1..Len(exportCache[i].exports) :
          exportCache[i].exports[k].source = exportCache[i].file
    /\ \A n \in 1..Len(allMissingImports) :
          LET m == allMissingImports[n]
          IN m.suggestion # None =>
               LET i          == resolveEntry(exportCache, m.identifier, m.file)
                   entry      == exportCache[i]
                   matched    == entry.exports[findExport(entry.exports, m.identifier)]
                   resolution == resolveImport(exportCache, m.identifier, m.file)[1]
               IN /\ m.suggestion[1].source = resolution.source
                  /\ m.suggestion[1].isDefault = matched.isDefault
                  /\ resolution.name = matched.name
                  /\ resolution.isDefault = matched.isDefault
                  /\ resolution.isType = matched.isType
                  /\ IsComputedSpecifier(m.suggestion[1].source, entry.file)
                  /\ m.suggestion[1].source # JoinStr(absolutePath(entry.file))

\* a run that suggested an aliased source for a default export
C13_AliasedSuggestion ==
    /\ pc = "done"
    /\ \E n \in 1..Len(allMissingImports) :
          /\ allMissingImports[n].suggestion # None
          /\ allMissingImports[n].suggestion[1].source = "@sub/c"
          /\ allMissingImports[n].suggestion[1].isDefault


(***************************************************************************)
(* C14: files without a language plugin                                    *)
(***************************************************************************)
\* C14 (as claimed): a file whose extension has no matching plugin never
\* becomes a key of the export index, and no identifier is resolved to it
C14_NoPluginSkipped ==
    /\ \A i \in 1..Len(exportCache) : hasPlugin(exportCache[i].file.ext)
    /\ (call.made /\ call.result # None) =>
          hasPlugin(exportCache[call.entry].file.ext)

\* C14: the state the code reaches: with the plugin list [PythonPlugin] a .ts
\* file is a key of the index and an identifier is resolved to it
C14_IndexedWithoutPlugin ==
    /\ options = PythonOnly
    /\ call.made
    /\ call.result # None
    /\ exportCache[call.entry].file.ext = ".ts"
    /\ ~hasPlugin(".ts")


(***************************************************************************)
(* C15: the shape of the export index                                      *)
(***************************************************************************)
\* C15: in every state of the export index, during and after the build, each
\* key maps to a non-empty sequence of exports and each file path occurs at
\* most once as a key
C15_NonEmptyUniqueKeys ==
    /\ \A i \in 1..Len(exportCache) : Len(exportCache[i].exports) > 0
    /\ \A i, j \in 1..Len(exportCache) :
          exportCache[i].file = exportCache[j].file => i = j

\* the build is over, every file was read, the first file has no export and
\* is not a key, the other two are keys
C15_FileWithoutExportsOmitted ==
    /\ pc = "analyze"
    /\ \A r \in readFailed : r[1] # runNo
    /\ disk[Walk[1]] = UseH
    /\ Len(exportCache) = 2
    /\ \A i \in 1..Len(exportCache) : exportCache[i].file # Walk[1]


(***************************************************************************)
(* C16: the file set of the index                                          *)
(***************************************************************************)
\* the files supplied for the run: those of the configured extensions that the
\* configured ignore patterns do not exclude
SuppliedFiles ==
    {f \in Paths : /\ f.ext \in cliOptions.extensions
                   /\ Range(f.dir) \cap cliOptions.ignore = {}}

IndexKeys == {exportCache[i].file : i \in 1..Len(exportCache)}

\* C16 (as claimed): once the build is over the keys of the index are the
\* readable supplied files with at least one export, and no import is
\* resolved to a file the run's ignore patterns exclude
C16_IndexFromSuppliedFiles ==
    /\ pc = "analyze" =>
          IndexKeys = {f \in SuppliedFiles :
                          /\ <<runNo, "index", f>> \notin readFailed
                          /\ Len(pluginParseExports(disk[f], f)) > 0}
    /\ \A n \in 1..Len(allMissingImports) :
          LET m == allMissingImports[n]
          IN m.suggestion # None =>
               exportCache[resolveEntry(exportCache, m.identifier, m.file)].file
                   \in SuppliedFiles

\* C16: the state the code reaches: the run ignores "sub", and an import was
\* resolved to p/sub/c.tsx
C16_ResolvedToIgnoredFile ==
    /\ cliOptions = CliIgnoreSub
    /\ pc = "done"
    /\ \E n \in 1..Len(allMissingImports) :
          LET m == allMissingImports[n]
          IN /\ m.suggestion # None
             /\ exportCache[resolveEntry(exportCache, m.identifier, m.file)].file
                    = Walk[3]
             /\ m.suggestion[1].source = "@sub/c"


(***************************************************************************)
(* C17: the export index is written once, then read                        *)
(***************************************************************************)
\* what one step of a run may do to the export index
C17_WriteOnceStep ==
    \* an invocation constructs its index afresh
    /\ (pc # "index" /\ pc' = "index") => (exportCache' = <<>> /\ walkPos' = 0)
    \* one pass: every step of the build takes the next file of the file set
    /\ (pc = "index" /\ pc' = "index") =>
          /\ walkPos' = walkPos + 1
          /\ walkPos' <= Len(globFiles)
    \* the analysis, which makes the resolveImport calls, follows a complete pass
    /\ (pc = "index" /\ pc' = "analyze") => walkPos = Len(globFiles)
    /\ allMissingImports' # <<>> => pc' \in {"analyze", "apply", "done", "aborted"}
    \* resolution, report and fix application leave the index as it is
    /\ pc \in {"analyze", "apply", "done", "aborted"} =>
          (exportCache' = exportCache \/ pc' = "index")

\* C17: within a run the build makes exactly one pass over the file set and is
\* complete before the first resolveImport call; no later step of the run
\* adds, removes or changes an entry; each invocation starts from an empty
\* index.
C17_WriteOnce == [][C17_WriteOnceStep]_vars

\* a second invocation has rebuilt the index and resolved an import from it
C17_SecondRunResolved ==
    /\ runNo = 2
    /\ pc = "done"
    /\ Len(exportCache) > 0
    /\ \E n \in 1..Len(allMissingImports) : allMissingImports[n].suggestion # None


(***************************************************************************)
(* C18: alias configuration that cannot be used                            *)
(***************************************************************************)
\* loading throws: no file, no JSON, or a first target that is not a string
LoadingFails(config) ==
    \/ config.kind # "ok"
    \/ \E i \in 1..Len(config.paths) :
          /\ config.paths[i].isArray
          /\ Len(config.paths[i].targets) > 0
          /\ ~config.paths[i].targets[1].isString

\* the file is absent, is not JSON, or has an entry of paths that is not a
\* non-empty list of strings
Malformed(config) ==
    \/ LoadingFails(config)
    \/ \E i \in 1..Len(config.paths) :
          \/ ~config.paths[i].isArray
          \/ Len(config.paths[i].targets) = 0

\* once the aliases are loaded the list is empty and a resolved source is the
\* relative form
AliasingDisabled ==
    pc # "idle" =>
       /\ pathAliases = <<>>
       /\ (call.made /\ call.result # None) =>
             call.result[1].source =
                 relativeSpecifier(call.currentFile, exportCache[call.entry].file)

\* C18 (as claimed): if the alias configuration file is absent, unparseable or
\* malformed, aliasing is disabled for the whole run: the alias list is empty
\* and every specifier produced is the relative form
C18_MalformedDisablesAliasing == Malformed(tsconfig) => AliasingDisabled

\* C18: the state the code reaches: two entries of paths are not usable lists,
\* and an import is resolved through the third entry's alias
C18_AliasKeptDespiteBadEntry ==
    /\ tsconfig = AliasNoList
    /\ Len(pathAliases) = 1
    /\ call.made
    /\ call.result # None
    /\ call.result[1].source = "@/b"

\* C18 restricted: when loading throws, aliasing is disabled
C18_FailedLoadDisablesAliasing == LoadingFails(tsconfig) => AliasingDisabled


(***************************************************************************)
(* C19: extension stripping                                                *)
(***************************************************************************)
\* the directory components a specifier can have between its start and the
\* base name
RECURSIVE JoinDirs(_)
JoinDirs(dirs) ==
    IF dirs = <<>> THEN "" ELSE dirs[1] \o "/" \o JoinDirs(Tail(dirs))

DirSeqs ==
    LET C == {"..", "sub", "ui", ".config", "uikit", "kit"}
    IN {<<>>} \cup {<<a>> : a \in C} \cup {<<a, b>> : a \in C, b \in C}
       \cup {<<a, b, c>> : a \in C, b \in C, c \in C}

\* the alias prefixes of the configurations
AliasPrefixes ==
    UNION {{JoinStr(RemoveStar(config.paths[i].pattern)) : i \in 1..Len(config.paths)} :
              config \in AliasConfigs}

\* every text a specifier can have before the base name
SpecifierHeads ==
    {pre \o JoinDirs(dirs) :
        pre \in {"", "./"} \cup AliasPrefixes \cup {p \o "/" : p \in AliasPrefixes},
        dirs \in DirSeqs}

EndsWith(specifier, base) == \E head \in SpecifierHeads : specifier = head \o base

\* the extensions of the language plugins
SupportedExts == UNION {PluginExtensions[plugin] : plugin \in DefaultPlugins}

\* C19 (as claimed): for a defining file of any supported source type the
\* emitted specifier, relative or aliased, ends with the file's base name
\* without the source extension; a dot-segment before the extension, such as
\* the .test of config.test.ts, stays
C19_ExtensionStripped ==
    (pathCall.made /\ pathCall.toFile.ext \in SupportedExts) =>
        EndsWith(pathCall.result, pathCall.toFile.name)

\* C19: the state the code reaches: the specifier of a Rust file keeps ".rs"
C19_ExtensionKept ==
    /\ pathCall.made
    /\ pathCall.toFile = File(<<"p", "sub">>, "Card", ".rs")
    /\ pathCall.fromFile.dir = <<"p">>
    /\ pathAliases = <<>>
    /\ pathCall.result = "./sub/Card.rs"

\* C19 restricted: .ts, .tsx, .js, .jsx and .py are removed, any other
\* extension is kept, and nothing else of the name is removed
C19_ListedExtensionStripped ==
    pathCall.made =>
        /\ EndsWith(pathCall.result, BaseName(pathCall.toFile))
        /\ pathCall.toFile.ext \in {".ts", ".tsx", ".py"}
              => EndsWith(pathCall.result, pathCall.toFile.name)
        /\ pathCall.toFile.ext \in {".vue", ".rs"}
              => EndsWith(pathCall.result, pathCall.toFile.name \o pathCall.toFile.ext)


(***************************************************************************)
(* C20: insertion into a script region                                     *)
(***************************************************************************)
\* the number of the last import statement of the region, 0 if it has none
LastImportStatement(statements) ==
    LET imports == {k \in 1..Len(statements) : statements[k] \in ImportStatements}
    IN IF imports = {} THEN 0 ELSE Max(imports)

\* C20: in a file with a delimited script region the new import lines are
\* placed inside the region, immediately after its last import, or at its top
\* if it has none; every inserted line lies strictly after the opening and
\* strictly before the closing delimiter, and the text outside the region is
\* unchanged
C20_InsideScriptRegion ==
    (edit.made /\ edit.ext \in FrameworkExts) =>
        LET k      == LastImportStatement(edit.statements)
            before == Flatten(SubSeq(edit.statements, 1, k))
            after  == Flatten(SubSeq(edit.statements, k + 1, Len(edit.statements)))
            n      == Len(edit.newImports)
            open   == Len(edit.header)
            close  == Len(edit.result) - Len(edit.footer) + 1
        IN /\ edit.result =
                 edit.header \o before \o edit.newImports \o after \o edit.footer
           /\ IsRegionOpen(edit.result[open], edit.ext)
           /\ IsRegionClose(edit.result[close], edit.ext)
           /\ \A i \in 1..n :
                 /\ edit.result[edit.at + i] = edit.newImports[i]
                 /\ open < edit.at + i
                 /\ edit.at + i < close
           /\ SubSeq(edit.result, 1, open) = SubSeq(edit.lines, 1, open)
           /\ SubSeq(edit.result, close, Len(edit.result)) = edit.footer
           /\ Len(edit.result) = Len(edit.lines) + n

\* two imports were added to a Vue component after the multi-line import that
\* is the last import of its script region
C20_AfterLastImportOfRegion ==
    /\ edit.made
    /\ edit.ext = ".vue"
    /\ edit.statements = <<SComment, SImportZ, SImportMulti, SCode>>
    /\ Len(edit.newImports) = 2
    /\ edit.at = 9
    /\ edit.result[10] = edit.newImports[1]
    /\ edit.result[11] = edit.newImports[2]


(***************************************************************************)
(* C21: the form of the import line                                        *)
(***************************************************************************)
\* the export of the index that the suggestion of m was made from
MatchedExport(m) ==
    LET entry == exportCache[resolveEntry(exportCache, m.identifier, m.file)]
    IN entry.exports[findExport(entry.exports, m.identifier)]

DefaultForm(name, specifier) == <<"import", name, "from", "'", specifier, "'", ";">>

NamedForm(name, specifier) ==
    <<"import", "{", name, "}", "from", "'", specifier, "'", ";">>

\* C21: the import form follows the default flag of the resolved export: for
\* a default export the line is `import Name from '<specifier>';`, without
\* braces, otherwise it is `import { Name } from '<specifier>';`, and that is
\* the line found in the file once it is written
C21_FormFollowsDefaultFlag ==
    \A n \in 1..Len(allMissingImports) :
        LET m == allMissingImports[n]
        IN m.suggestion # None =>
             LET line == IF MatchedExport(m).isDefault
                         THEN DefaultForm(m.identifier, m.suggestion[1].source)
                         ELSE NamedForm(m.identifier, m.suggestion[1].source)
             IN /\ m.suggestion[1].isDefault = MatchedExport(m).isDefault
                /\ importStatement(m) = line
                /\ writes[m.file] = 1 => line \in Range(disk[m.file])

\* a run wrote the default form for `export default function A() {}` of b.ts
C21_DefaultImportWritten ==
    /\ pc = "done"
    /\ diskAtStart[Walk[2]] = DefaultA
    /\ diskAtStart[Walk[1]] = UseAH
    /\ writes[Walk[1]] = 1
    /\ disk[Walk[1]][1] = DefaultForm("A", "./b")


(***************************************************************************)
(* The batch export list at the level of characters: the text between the  *)
(* braces of export { ... } is a sequence of one-character strings, and    *)
(* the names are computed from it as parseExportsLegacy computes them.     *)
(***************************************************************************)
\* the longest identifier the list harness writes
MaxIdentLen == 2

IsSpaceChar(c) == c \in {" ", "\n", "\t"}

\* the first index at or after i that holds no white space
RECURSIVE SkipSpaces(_, _)
SkipSpaces(chars, i) ==
    IF i <= Len(chars) /\ IsSpaceChar(chars[i]) THEN SkipSpaces(chars, i + 1) ELSE i

\* /\s*as\s*/i tried at index i: 0 for no match, else the index after the match
asMatchEnd(chars, i) ==
    LET j == SkipSpaces(chars, i)
    IN IF /\ j + 1 <= Len(chars)
          /\ chars[j] \in {"a", "A"}
          /\ chars[j + 1] \in {"s", "S"}
       THEN SkipSpaces(chars, j + 2)
       ELSE 0

\* name.split(/\s*as\s*/i), then parts[parts.length - 1]: the text after the
\* last match of the separator, scanning left to right without overlap
lastAsPart(chars) ==
    LET RECURSIVE Go(_, _)
        Go(i, start) ==
            IF i > Len(chars) THEN SubSeq(chars, start, Len(chars))
            ELSE LET e == asMatchEnd(chars, i)
                 IN IF e # 0 THEN Go(e, e) ELSE Go(i + 1, start)
    IN Go(1, 1)

\* String.prototype.trim
RECURSIVE trimChars(_)
trimChars(chars) ==
    IF chars = <<>> THEN <<>>
    ELSE IF IsSpaceChar(chars[1]) THEN trimChars(Tail(chars))
    ELSE IF IsSpaceChar(chars[Len(chars)])
         THEN trimChars(SubSeq(chars, 1, Len(chars) - 1))
    ELSE chars

\* match[1].split(',').map(s => s.trim()).filter(s => s.length > 0), then the
\* last as-part of every name
exportListNames(inner) ==
    LET parts == SplitBy(inner, ",")
        names == SelectSeq([k \in 1..Len(parts) |-> trimChars(parts[k])],
                           LAMBDA s : Len(s) > 0)
    IN [k \in 1..Len(names) |-> lastAsPart(names[k])]

\* the identifiers of the list harness, letter by letter
ListLetters == {"a", "s", "x"}

ListIdents ==
    UNION {[1..n -> ListLetters] : n \in 1..MaxIdentLen}
    \cup {<<"B", "a", "s", "e">>, <<"f", "o", "o">>}

\* an item of an export list: the identifier, and the alias if there is one
ListItems ==
    {[name |-> x, alias |-> None] : x \in ListIdents}
    \cup {[name |-> x, alias |-> Some(y)] : x \in ListIdents, y \in ListIdents}

SecondItems ==
    {[name |-> <<"f", "o", "o">>, alias |-> None],
     [name |-> <<"x">>, alias |-> Some(<<"B", "a", "s", "e">>)]}

ExportLists ==
    {<<it>> : it \in ListItems} \cup {<<it, jt>> : it \in ListItems, jt \in SecondItems}

\* an item as it is written in the source text
WrittenItem(it) ==
    IF it.alias = None THEN it.name
    ELSE it.name \o <<" ", "a", "s", " ">> \o it.alias[1]

\* the text between the braces: the items separated by a comma and a space
RECURSIVE WrittenList(_)
WrittenList(items) ==
    IF items = <<>> THEN <<>>
    ELSE IF Len(items) = 1 THEN WrittenItem(items[1])
    ELSE WrittenItem(items[1]) \o <<",", " ">> \o WrittenList(Tail(items))

\* the post-alias name of an item
PostAliasName(it) == IF it.alias = None THEN it.name ELSE it.alias[1]

\* no run, no resolver and no direct call yet: the state every harness of a
\* single function starts from
IdleProgram ==
    /\ tsconfig = TsConfigAbsent
    /\ cliOptions = CliDefault
    /\ pathAliases = <<>>
    /\ options = DefaultResolverOptions
    /\ pathCall = NoPathCall
    /\ disk = [f \in Paths |-> UseH]
    /\ diskAtStart = disk
    /\ pc = "idle"
    /\ runNo = 0
    /\ dryRun = FALSE
    /\ exportCache = <<>>
    /\ walkPos = 0
    /\ files = <<>>
    /\ allMissingImports = <<>>
    /\ filesWithIssues = 0
    /\ fileMap = <<>>
    /\ writes = [f \in Paths |-> 0]
    /\ readFailed = {}
    /\ history = {}
    /\ call = NoCall
    /\ edit = NoEdit

InitExportList ==
    /\ IdleProgram
    /\ wizard = NoWizard
    /\ \E items \in ExportLists :
          parseCall = [made |-> FALSE, input |-> items, output |-> <<>>]

\* parseExportsLegacy run on the text export { items }
ParseListCall ==
    /\ ~parseCall.made
    /\ parseCall' = [parseCall EXCEPT
                       !.made = TRUE,
                       !.output = exportListNames(WrittenList(parseCall.input))]
    /\ UNCHANGED <<disk, diskAtStart, pc, runNo, dryRun, exportCache, walkPos, files,
                   allMissingImports, filesWithIssues, fileMap, writes, readFailed,
                   history, call, edit, tsconfig, pathAliases, options, cliOptions,
                   pathCall, wizard>>

NextExportList == ParseListCall

SpecExportList == InitExportList /\ [][NextExportList]_vars

\* the letters a and s, in either case, next to each other in a name
ContainsAs(chars) ==
    \E i \in 1..(Len(chars) - 1) : chars[i] \in {"a", "A"} /\ chars[i + 1] \in {"s", "S"}

\* C22: an export list yields one export per item, bound to the post-alias
\* name: x as y yields y and an item without alias yields its identifier as
\* written, whatever letters the identifiers contain.
C22_PostAliasNames ==
    parseCall.made =>
        /\ Len(parseCall.output) = Len(parseCall.input)
        /\ \A k \in 1..Len(parseCall.input) :
              parseCall.output[k] = PostAliasName(parseCall.input[k])

\* the same for the lists whose post-alias names do not contain the letters as
C22_NamesWithoutAs ==
    (parseCall.made /\ \A k \in 1..Len(parseCall.input) :
                          ~ContainsAs(PostAliasName(parseCall.input[k]))) =>
        /\ Len(parseCall.output) = Len(parseCall.input)
        /\ \A k \in 1..Len(parseCall.input) :
              parseCall.output[k] = PostAliasName(parseCall.input[k])

\* export { Base } has been parsed and the name bound is e
C22_BaseBecomesE ==
    /\ parseCall.made
    /\ parseCall.input = <<[name |-> <<"B", "a", "s", "e">>, alias |-> None]>>
    /\ parseCall.output = <<<<"e">>>>


(***************************************************************************)
(* The parser called directly on small texts in which a name is used as a  *)
(* tag, as a direct call, or as a method of a receiver.                    *)
(***************************************************************************)
\* the most lines of a text given to the parser
MaxUsageLines == 2

UsageNames == {"Array", "Promise", "Map", "new", "Card", "formatName"}
MethodNames == {"from", "resolve", "toUpperCase", "formatName"}
Receivers == {"Array", "Promise", "str"}

\* name(...)
CallLine(name) == <<name, "(", ")">>
\* <Name />
TagLine(name) == <<"<", name, "/>">>
\* receiver.name(...)
MethodLine(receiver, name) == <<receiver, ".", name, "(", ")">>

UsageLines ==
    {CallLine(n) : n \in UsageNames}
    \cup {TagLine(n) : n \in UsageNames}
    \cup {MethodLine(r, n) : r \in Receivers, n \in MethodNames}

UsageTexts == UNION {[1..n -> UsageLines] : n \in 1..MaxUsageLines}

InitParse ==
    /\ IdleProgram
    /\ wizard = NoWizard
    /\ \E content \in UsageTexts :
          parseCall = [made |-> FALSE, input |-> content, output |-> <<>>]

\* AstParser.parse(content): usedIdentifiers and missingImports
ParseCall ==
    /\ ~parseCall.made
    /\ parseCall' = [parseCall EXCEPT
                       !.made = TRUE,
                       !.output = [usedIdentifiers |-> findUsedIdentifiers(parseCall.input),
                                   missingImports  |-> missingImportsOf(parseCall.input)]]
    /\ UNCHANGED <<disk, diskAtStart, pc, runNo, dryRun, exportCache, walkPos, files,
                   allMissingImports, filesWithIssues, fileMap, writes, readFailed,
                   history, call, edit, tsconfig, pathAliases, options, cliOptions,
                   pathCall, wizard>>

NextParse == ParseCall

SpecParse == InitParse /\ [][NextParse]_vars

\* C23: every name of the denylist is a built-in or keyword, and no such name
\* is a used identifier or a missing import of any text, whether it is used
\* as a receiver (Array.from(...)), called directly or written as a tag.
C23_BuiltInsNeverReported ==
    /\ \A name \in BuiltInsAndKeywords : isBuiltInOrKeyword(name)
    /\ parseCall.made =>
          /\ Range(parseCall.output.usedIdentifiers) \cap BuiltInsAndKeywords = {}
          /\ Range(parseCall.output.missingImports) \cap BuiltInsAndKeywords = {}

\* Map(...) and <Promise /> have been parsed, and nothing is reported
C23_BuiltInCalledAndTagged ==
    /\ parseCall.made
    /\ parseCall.input = <<CallLine("Map"), TagLine("Promise")>>
    /\ parseCall.output.usedIdentifiers = <<>>
    /\ parseCall.output.missingImports = <<>>

\* the number of times name occurs in a sequence
Count(s, name) == Cardinality({i \in 1..Len(s) : s[i] = name})

\* the number of times name is written in a text without a dot before it
NonMethodOccurrences(content, name) ==
    LET toks == Flatten(content)
    IN Cardinality({i \in 1..Len(toks) :
                       toks[i] = name /\ ~(i > 1 /\ toks[i - 1] = ".")})

\* C24: the identifier after the dot of receiver.identifier(...) is not a used
\* identifier because of that call: a name is reported at most once for each
\* place it is written without a dot before it, and a name that is written
\* only after dots is neither a used identifier nor a missing import.
C24_MethodCallsNotReported ==
    parseCall.made =>
        \A name \in MethodNames :
            /\ Count(parseCall.output.usedIdentifiers, name)
                  <= NonMethodOccurrences(parseCall.input, name)
            /\ NonMethodOccurrences(parseCall.input, name) = 0
                  => name \notin Range(parseCall.output.missingImports)

\* formatName(...) and str.formatName(...) have been parsed: formatName is
\* reported once, for the direct call
C24_OnlyTheDirectCall ==
    /\ parseCall.made
    /\ parseCall.input = <<MethodLine("str", "formatName"), CallLine("formatName")>>
    /\ parseCall.output.usedIdentifiers = <<"formatName">>


(***************************************************************************)
(* The summary of a run                                                    *)
(***************************************************************************)
\* Resolvable imports: allMissingImports.filter(m => m.suggestion).length
ResolvedCount == Len(SelectSeq(allMissingImports, LAMBDA m : m.suggestion # None))

\* the entries reported as not found in project
UnresolvedCount == Len(SelectSeq(allMissingImports, LAMBDA m : m.suggestion = None))

\* the scanned files an entry can have been produced for
ScannedAs(path) == {i \in 1..Len(files) : files[i].path = path}

\* C25: after the analysis of a run the report is consistent: the total of
\* entries is resolved plus unresolved; an entry has a suggestion exactly if
\* the resolver finds a match for it; the files with missing imports are at
\* most the files scanned and at most the entries; every entry names a
\* scanned file and an identifier missing from that file.
C25_ReportConsistent ==
    Analyzed =>
        /\ Len(allMissingImports) = ResolvedCount + UnresolvedCount
        /\ \A k \in 1..Len(allMissingImports) :
              LET m == allMissingImports[k]
              IN /\ (m.suggestion # None)
                       <=> (resolveImport(exportCache, m.identifier, m.file) # None)
                 /\ \E i \in ScannedAs(m.file) :
                       m.identifier \in Range(missingImportsOf(files[i].content))
        /\ filesWithIssues <= Len(files)
        /\ filesWithIssues <= Len(allMissingImports)

\* a run over three files has reported one resolved and one unresolved entry,
\* and one of the files has no missing import
C25_MixedReport ==
    /\ pc = "done"
    /\ Len(files) = 3
    /\ filesWithIssues = 2
    /\ ResolvedCount = 1
    /\ UnresolvedCount = 1


(***************************************************************************)
(* cli/setupWizard.ts: runSetupWizard.  wizard.pc is "off" before the      *)
(* call, "step" inside the step loop, "summary" once the summary has been  *)
(* shown, "cancelled" after process.exit(0) and "failed" after a rejected  *)
(* file operation.  written holds every .auto-import.json written so far,  *)
(* completed the steps that have returned without the back signal.         *)
(***************************************************************************)
\* the most times the user chooses Go back
MaxBacks == 3

\* steps.length
NumSteps == 5

\* getAllExtensions(), as far as the multiselect of the wizard needs it
WizardExts == {".ts", ".vue"}

\* wizardUtils.generateConfig
generateConfig(opts) ==
    [extensions |-> opts.extensions, ignore |-> opts.ignore, useAliases |-> opts.useAliases]

\* variant: the alias setting is the detected one
stepConfigAndScanWriteMutDetected(state) ==
    generateConfig([extensions |-> state.selectedExtensions,
                    ignore     |-> <<>>,
                    useAliases |-> state.hasTsconfig])

\* stepConfigAndScan: the config written to .auto-import.json
stepConfigAndScanWrite(state) ==
    generateConfig([extensions |-> state.selectedExtensions,
                    ignore     |-> <<>>,
                    useAliases |-> state.useAliases])

\* variant: a step that does not go back leaves the cursor where it is
nextStepIndexMutStay(stepIndex, result) ==
    IF result = "back" THEN Max({0, stepIndex - 1}) ELSE stepIndex

\* variant: a step that does not go back moves the cursor by two
nextStepIndexMutSkip(stepIndex, result) ==
    IF result = "back" THEN Max({0, stepIndex - 1}) ELSE stepIndex + 2

\* the body of the step loop after the step has returned
nextStepIndex(stepIndex, result) ==
    IF result = "back" THEN Max({0, stepIndex - 1}) ELSE stepIndex + 1

\* the step returned BACK
GoBack(w) ==
    [w EXCEPT !.stepIndex = nextStepIndex(w.stepIndex, "back"),
              !.backs = w.backs + 1,
              !.result = "back"]

\* the step returned void
Advance(w) ==
    [w EXCEPT !.stepIndex = nextStepIndex(w.stepIndex, "advance"),
              !.completed = w.completed \cup {w.stepIndex},
              !.result = "advance"]

UnchangedByWizard ==
    UNCHANGED <<disk, diskAtStart, pc, runNo, dryRun, exportCache, walkPos, files,
                allMissingImports, filesWithIssues, fileMap, writes, readFailed,
                history, call, edit, tsconfig, pathAliases, options, cliOptions,
                pathCall, parseCall>>

InitWizard ==
    /\ IdleProgram
    /\ parseCall = NoParseCall
    /\ wizard = NoWizard

\* runSetupWizard up to the step loop: the detection phase and the state
StartWizard ==
    /\ wizard.pc = "off"
    /\ \E hasTsconfig \in BOOLEAN :
          wizard' = [NoWizard EXCEPT !.pc = "step",
                                     !.hasTsconfig = hasTsconfig,
                                     !.useAliases = hasTsconfig]
    /\ UnchangedByWizard

InStep(k) == wizard.pc = "step" /\ wizard.stepIndex = k

\* steps[0]: the multiselect requires at least one extension
StepExtensions ==
    /\ InStep(0)
    /\ \E extensions \in (SUBSET WizardExts) \ {{}} :
          wizard' = Advance([wizard EXCEPT !.selectedExtensions = extensions])
    /\ UnchangedByWizard

\* steps[1]
StepAliases ==
    /\ InStep(1)
    /\ \/ wizard.backs < MaxBacks /\ wizard' = GoBack(wizard)
       \/ \E useAliases \in BOOLEAN :
             wizard' = Advance([wizard EXCEPT !.useAliases = useAliases])
    /\ UnchangedByWizard

\* steps[2]: the config is written, then the dry-run scan is offered; the
\* scan changes nothing the wizard keeps and its errors are caught
StepConfigAndScan ==
    /\ InStep(2)
    /\ \/ wizard.backs < MaxBacks /\ wizard' = GoBack(wizard)
       \/ wizard' = Advance([wizard EXCEPT
                                !.written = Append(wizard.written,
                                                   stepConfigAndScanWrite(wizard))])
    /\ UnchangedByWizard

\* steps[2], the scan prompt cancelled: the config has been written already
StepConfigAndScanCancelled ==
    /\ InStep(2)
    /\ wizard' = [wizard EXCEPT
                    !.written = Append(wizard.written, stepConfigAndScanWrite(wizard)),
                    !.pc = "cancelled"]
    /\ UnchangedByWizard

\* steps[3]
StepScripts ==
    /\ InStep(3)
    /\ \/ wizard.backs < MaxBacks /\ wizard' = GoBack(wizard)
       \/ wizard' = Advance(wizard)
    /\ UnchangedByWizard

\* steps[4]: a cancelled husky prompt does not exit
StepHusky ==
    /\ InStep(4)
    /\ \/ wizard.backs < MaxBacks /\ wizard' = GoBack(wizard)
       \/ wizard' = Advance(wizard)
    /\ UnchangedByWizard

\* cancelled(value): a prompt is cancelled before the step has changed anything
Cancel ==
    /\ wizard.pc = "step"
    /\ wizard.stepIndex < NumSteps
    /\ wizard' = [wizard EXCEPT !.pc = "cancelled"]
    /\ UnchangedByWizard

\* fs.writeFile or fs.readFile of a step rejects outside any try block: the
\* promise of runSetupWizard rejects
StepFails ==
    /\ wizard.pc = "step"
    /\ wizard.stepIndex \in {2, 3, 4}
    /\ wizard' = [wizard EXCEPT !.pc = "failed"]
    /\ UnchangedByWizard

\* after the loop: p.note(...), p.outro(...)
ShowSummary ==
    /\ wizard.pc = "step"
    /\ ~(wizard.stepIndex < NumSteps)
    /\ wizard' = [wizard EXCEPT
                    !.pc = "summary",
                    !.summary = Some([extensions |-> wizard.selectedExtensions,
                                      aliases    |-> wizard.useAliases])]
    /\ UnchangedByWizard

NextWizard ==
    \/ StartWizard
    \/ StepExtensions
    \/ StepAliases
    \/ StepConfigAndScan
    \/ StepConfigAndScanCancelled
    \/ StepScripts
    \/ StepHusky
    \/ Cancel
    \/ StepFails
    \/ ShowSummary

SpecWizard == InitWizard /\ [][NextWizard]_vars

\* a transition in which one step of the loop ran to its return
StepReturned == wizard.pc = "step" /\ wizard'.pc = "step" /\ wizard' # wizard

C26_CursorRule ==
    /\ wizard'.stepIndex <= wizard.stepIndex + 1
    /\ StepReturned =>
          /\ wizard'.result = "back"
                => wizard'.stepIndex = Max({0, wizard.stepIndex - 1})
          /\ wizard'.result # "back"
                => wizard'.stepIndex = wizard.stepIndex + 1

\* C26: the step index is always between 0 and the number of steps; a step
\* that returns the back signal moves it to max(0, index - 1) and any other
\* result to index + 1; it never grows by more than one; the summary is
\* shown only when the index equals the number of steps.
C26_StepCursor ==
    /\ [](/\ wizard.stepIndex \in 0..NumSteps
          /\ wizard.summary # None => wizard.stepIndex = NumSteps)
    /\ [][C26_CursorRule]_vars

\* the summary has been shown after the user went back at least once
C26_SummaryAfterGoingBack ==
    /\ wizard.pc = "summary"
    /\ wizard.stepIndex = NumSteps
    /\ wizard.backs > 0


\* C27: whenever the wizard has completed, whatever the back and forward
\* choices were, the last .auto-import.json written was generated from the
\* final wizard state: its extensions and alias setting are those shown in
\* the summary.
C27_LastConfigIsFinalState ==
    wizard.pc = "summary" =>
        /\ wizard.written # <<>>
        /\ LET last == wizard.written[Len(wizard.written)]
           IN /\ last.extensions = wizard.summary[1].extensions
              /\ last.useAliases = wizard.summary[1].aliases
              /\ last = stepConfigAndScanWrite(wizard)

\* the wizard has completed after writing two configs that differ in both
\* settings: the user went back and changed the selections
C27_RewrittenAfterGoingBack ==
    /\ wizard.pc = "summary"
    /\ Len(wizard.written) = 2
    /\ wizard.written[1].extensions # wizard.written[2].extensions
    /\ wizard.written[1].useAliases # wizard.written[2].useAliases
    /\ wizard.written[2].useAliases # wizard.hasTsconfig

\* the user answers every prompt; cancelling and failing file operations are
\* possible and never forced
WizardFairness ==
    /\ WF_vars(StartWizard)
    /\ WF_vars(StepExtensions)
    /\ WF_vars(StepAliases)
    /\ WF_vars(StepConfigAndScan)
    /\ WF_vars(StepScripts)
    /\ WF_vars(StepHusky)
    /\ WF_vars(ShowSummary)

SpecWizardFair == InitWizard /\ [][NextWizard]_vars /\ WizardFairness

\* the loop has ended, the summary is shown, every step has completed
SummaryShown ==
    /\ wizard.pc = "summary"
    /\ wizard.stepIndex = NumSteps
    /\ wizard.completed = 0..(NumSteps - 1)

LinesBefore(statements, k) == Len(Flatten(SubSeq(statements, 1, k - 1)))

ImportStatementsOf(statements) ==
    {k \in 1..Len(statements) : statements[k] \in ImportStatements}

\* the insertion index lies between two lines of statement k
SplicedInside(statements, k, at) ==
    /\ LinesBefore(statements, k) < at
    /\ at < LinesBefore(statements, k) + Len(statements[k])

\* the lines of a declaration are found one after the other in a text
ContiguousIn(declaration, lines) ==
    \E from \in 0..(Len(lines) - Len(declaration)) :
        SubSeq(lines, from + 1, from + Len(declaration)) = declaration

\* C29: new import lines are never put between the lines of an existing
\* import declaration of a plain file: if the last import declaration spans
\* several lines the insertion index is the line after its final line, and
\* every import declaration of the old text is contiguous in the new text.
C29_DeclarationsIntact ==
    edit.made =>
        LET imports == ImportStatementsOf(edit.statements)
        IN /\ \A k \in imports : ~SplicedInside(edit.statements, k, edit.at)
           /\ \A k \in imports : ContiguousIn(edit.statements[k], edit.result)
           /\ (imports # {} /\ edit.statements[Max(imports)] = SImportMulti) =>
                 edit.at = LinesBefore(edit.statements, Max(imports)) + Len(SImportMulti)

\* the state the code reaches: the only import of the text spans three lines
\* and the new import has become the second line of the file
C29_SplitDeclaration ==
    /\ edit.made
    /\ edit.statements = <<SImportMulti, SCode>>
    /\ edit.at = 1
    /\ edit.result[2] = edit.newImports[1]
    /\ ~ContiguousIn(SImportMulti, edit.result)

\* the same for the texts whose last import declaration is a single line
C29_IntactAfterOneLineImport ==
    (edit.made /\ ImportStatementsOf(edit.statements) # {}
               /\ edit.statements[Max(ImportStatementsOf(edit.statements))] # SImportMulti) =>
        \A k \in ImportStatementsOf(edit.statements) :
            /\ ~SplicedInside(edit.statements, k, edit.at)
            /\ ContiguousIn(edit.statements[k], edit.result)


(***************************************************************************)
(* An alias and the directory it stands for                                *)
(***************************************************************************)
\* the alias getAliasImportPath answers with: the first that matches
ChosenAlias(toFile) == pathAliases[Min(MatchingAliases(toFile))]

\* the call was answered with the specifier of an alias
AliasedCall ==
    /\ pathCall.made
    /\ MatchingAliases(pathCall.toFile) # {}
    /\ pathCall.result = AliasSpecifier(ChosenAlias(pathCall.toFile), pathCall.toFile)

IsWildcard(alias) == alias.pattern # alias.prefix

\* the target of an alias as directory components: baseUrl resolved against
\* the project root, then the target without its "*"
TargetDir(alias) ==
    ResolveSegs(ResolveSegs(ProjectRoot, tsconfig.baseUrl),
                RemoveStar(tsconfig.paths[ConfigIndex(alias)].targets[1].segs))

\* a file's absolute path without its extension
PathWithoutExtension(f) == JoinStr(<<Sep>> \o DirAtoms(f.dir) \o <<f.name>>)

\* what can follow the alias prefix in a specifier for a file
RestsOf(f) ==
    LET P == absolutePath(f)
    IN {JoinStr(SubSeq(P, k, m)) : k \in 1..(Len(P) + 1), m \in {Len(P) - 1, Len(P)}}

\* the specifier, read through the alias, is the path: a pattern with "*"
\* stands for its target followed by what "*" matched, a pattern without
\* "*" stands for its target and matches no other specifier
ExpandsTo(alias, specifier, path) ==
    IF IsWildcard(alias)
    THEN \E rest \in RestsOf(pathCall.toFile) :
            /\ specifier = alias.prefix \o rest
            /\ path = JoinStr(alias.targetPrefix) \o rest
    ELSE specifier = alias.prefix /\ path = JoinStr(alias.targetPrefix)

\* C30: an alias, with or without wildcard, is applied only to a file that
\* lies inside its target directory at a boundary between path components,
\* never to a file of a sibling whose name begins with the target's name,
\* and the specifier read through the alias is the file's path without
\* extension.
C30_AliasAtComponentBoundary ==
    AliasedCall =>
        LET alias == ChosenAlias(pathCall.toFile)
        IN /\ IsPrefixOf(TargetDir(alias), pathCall.toFile.dir)
           /\ ExpandsTo(alias, pathCall.result, PathWithoutExtension(pathCall.toFile))

\* the state the code reaches: with "ui" standing for sub/ui, the file
\* sub/uikit/Card.ts is given the specifier uikit/Card
C30_SiblingGivenAlias ==
    /\ AliasedCall
    /\ tsconfig = AliasExact
    /\ pathCall.toFile = File(<<"p", "sub", "uikit">>, "Card", ".ts")
    /\ ~IsPrefixOf(TargetDir(ChosenAlias(pathCall.toFile)), pathCall.toFile.dir)
    /\ pathCall.result = "uikit/Card"

\* the same for the aliases with a wildcard and the extensions the code strips
C30_WildcardAtComponentBoundary ==
    (AliasedCall /\ IsWildcard(ChosenAlias(pathCall.toFile))) =>
        LET alias == ChosenAlias(pathCall.toFile)
        IN /\ IsPrefixOf(TargetDir(alias), pathCall.toFile.dir)
           /\ pathCall.toFile.ext \in StrippedExts =>
                 ExpandsTo(alias, pathCall.result, PathWithoutExtension(pathCall.toFile))

====
